---------------------------- MODULE Spec2Model ----------------------------
(***************************************************************************)
(* A model of the dataset layer of the sm library: the FullTable value     *)
(* type with its row/column subsetting and its dict round trip             *)
(* (sm/dataset.py, sm/inputs/table.py, sm/inputs/link.py,                  *)
(* sm/inputs/context.py, sm/misc/matrix.py), the dataset loader            *)
(* (Dataset._open, Dataset.load) and the dataset saver (Dataset.save,      *)
(* get_friendly_fs_id).                                                    *)
(*                                                                         *)
(* Python lists are sequences; a 0-based index i of the code is position   *)
(* i + 1 of the sequence.  Python None is the string "None".  A call that  *)
(* raises is a result record with ok = FALSE and the exception in err.     *)
(***************************************************************************)
EXTENDS Integers, Sequences, FiniteSets, TLC

VARIABLES
    ft,         \* the FullTable an operation is called on
    out,        \* the last FullTable operation: its name, arguments, result
    heap,       \* the next free object identity (Python's id())
    location,   \* Dataset.location: the name of the directory or archive
    fs,         \* the files and directories under Dataset.location
    load,       \* the call of Dataset.load: where it is, what it has built
    save,       \* the call of Dataset.save: its arguments, where it is, and
                \* what the target held before the call
    fsid,       \* two calls of get_friendly_fs_id: the ids and the names
    sample,     \* two calls of sample_table_data: arguments, position, result
    prf,        \* the call of precision_recall_f1: arguments, position, result
    tr,         \* the call of replace_class_nodes_by_subject_columns, or
                \* of remove_isolated_nodes
    misc        \* the call of a function of sm.misc.funcs

tableVars == <<ft, out>>
loadVars == <<location, fs, load>>
evalVars == <<fsid, sample, prf, tr, misc>>
vars == <<ft, out, heap, location, fs, load, save, fsid, sample, prf, tr, misc>>

(***************************************************************************)
(* Bounds of the model.                                                    *)
(***************************************************************************)
MaxRows == 2
MaxCols == 2
MaxSel == 2

None == "None"

Range(s) == {s[i] : i \in 1..Len(s)}

\* All sequences over S of length at most n.
SeqsUpTo(S, n) == UNION {[1..k -> S] : k \in 0..n}

(***************************************************************************)
(* sm/misc/matrix.py                                                       *)
(***************************************************************************)

\* A result of a call that may raise.
Ok(v) == [ok |-> TRUE, val |-> v, err |-> None]
Raise(e, v) == [ok |-> FALSE, val |-> v, err |-> e]

\* Matrix.default(shp, list): shp[0] rows of shp[1] fresh empty lists.
MatrixDefault(shp) == [r \in 1..shp[1] |-> [c \in 1..shp[2] |-> <<>>]]

\* Matrix.shape(): (0, 0) without rows, else (rows, the rows' common length);
\* ValueError when the rows differ in length.
MatrixShape(data) ==
    IF Len(data) = 0 THEN Ok(<<0, 0>>)
    ELSE IF Cardinality({Len(data[r]) : r \in 1..Len(data)}) > 1
         THEN Raise("ValueError", <<0, 0>>)
         ELSE Ok(<<Len(data), Len(data[1])>>)

(***************************************************************************)
(* sm/inputs/table.py, sm/inputs/column.py                                 *)
(***************************************************************************)

\* Column(index, name, values).
Column(index, name, values) == [index |-> index, name |-> name, values |-> values]

\* ColumnBasedTable(table_id, columns): a new object, of identity oid.
ColumnBasedTable(oid, table_id, columns) ==
    [oid |-> oid, table_id |-> table_id, columns |-> columns]

\* ColumnBasedTable.shape(): (0, 0) without columns, else (the first
\* column's length, the number of columns).
TableShape(t) ==
    IF Len(t.columns) = 0 THEN <<0, 0>>
    ELSE <<Len(t.columns[1].values), Len(t.columns)>>

\* ColumnBasedTable.nrows().
TableNRows(t) == TableShape(t)[1]

\* ColumnBasedTable.select_rows(indices): every column keeps, in the order
\* of indices, the values of the rows named.
TableSelectRows(oid, t, indices) ==
    ColumnBasedTable(oid, t.table_id,
        [c \in 1..Len(t.columns) |->
            Column(t.columns[c].index, t.columns[c].name,
                   [k \in 1..Len(indices) |-> t.columns[c].values[indices[k] + 1]])])

\* ColumnBasedTable.keep_columns(columns, reindex): the columns named, in
\* the order given; with reindex they are renumbered 0, 1, ...
TableKeepColumns(oid, t, columns, reindex) ==
    ColumnBasedTable(oid, t.table_id,
        [k \in 1..Len(columns) |->
            Column(IF reindex THEN k - 1 ELSE t.columns[columns[k] + 1].index,
                   t.columns[columns[k] + 1].name,
                   t.columns[columns[k] + 1].values)])

\* ColumnBasedTable.to_dict().
TableToDict(t) ==
    [version |-> "str 2", table_id |-> t.table_id, columns |-> t.columns]

\* ColumnBasedTable.from_dict(record): asserts the version, builds a new
\* table object from the column records.
TableFromDict(oid, record) ==
    IF record.version # "str 2"
    THEN Raise("AssertionError", ColumnBasedTable(oid, <<>>, <<>>))
    ELSE Ok(ColumnBasedTable(oid, record.table_id,
                [c \in 1..Len(record.columns) |->
                    Column(record.columns[c].index, record.columns[c].name,
                           record.columns[c].values)]))

\* ColumnBasedTable defines no __eq__: a == b is Python's default, identity.
TableEq(a, b) == a.oid = b.oid

(***************************************************************************)
(* sm/inputs/link.py, sm/inputs/context.py                                 *)
(***************************************************************************)

EntityId(id, type) == [id |-> id, type |-> type]

\* EntityId is a str subclass: == compares the string, not the type.
EntityIdEq(a, b) == a.id = b.id

EntityListEq(a, b) ==
    Len(a) = Len(b) /\ \A i \in 1..Len(a) : EntityIdEq(a[i], b[i])

Link(start, end, url, entities) ==
    [start |-> start, end |-> end, url |-> url, entities |-> entities]

\* Link.to_dict().
LinkToDict(l) ==
    [version |-> "int 2", start |-> l.start, end |-> l.end, url |-> l.url,
     entities |-> [i \in 1..Len(l.entities) |->
                      [id |-> l.entities[i].id, type |-> l.entities[i].type]]]

\* Link.from_dict(obj), on a version 2 record.
LinkFromDict(obj) ==
    IF obj.version = "int 2"
    THEN Ok(Link(obj.start, obj.end, obj.url,
                 [i \in 1..Len(obj.entities) |->
                     EntityId(obj.entities[i].id, obj.entities[i].type)]))
    ELSE Raise("ValueError", Link(0, 0, None, <<>>))

\* Link.__eq__.
LinkEq(a, b) ==
    /\ a.start = b.start
    /\ a.end = b.end
    /\ a.url = b.url
    /\ EntityListEq(a.entities, b.entities)

\* Context(page_title, page_url, page_entities, content_hierarchy).
Context(title, url, entities, hierarchy) ==
    [page_title |-> title, page_url |-> url, page_entities |-> entities,
     content_hierarchy |-> hierarchy]

EmptyContext == Context(None, None, <<>>, <<>>)

\* Context.to_dict().
ContextToDict(c) ==
    [version |-> "int 2", page_title |-> c.page_title, page_url |-> c.page_url,
     page_entities |-> [i \in 1..Len(c.page_entities) |->
                           [id |-> c.page_entities[i].id,
                            type |-> c.page_entities[i].type]],
     content_hierarchy |-> c.content_hierarchy]

\* Context.from_dict(obj), on a version 2 record.
ContextFromDict(obj) ==
    IF obj.version = "int 2"
    THEN Ok(Context(obj.page_title, obj.page_url,
                    [i \in 1..Len(obj.page_entities) |->
                        EntityId(obj.page_entities[i].id, obj.page_entities[i].type)],
                    obj.content_hierarchy))
    ELSE Raise("ValueError", EmptyContext)

\* The dataclass __eq__ of Context: field by field.
ContextEq(a, b) ==
    /\ a.page_title = b.page_title
    /\ a.page_url = b.page_url
    /\ EntityListEq(a.page_entities, b.page_entities)
    /\ a.content_hierarchy = b.content_hierarchy

\* list == list over cells of links, and the dataclass __eq__ of Matrix.
CellEq(a, b) == Len(a) = Len(b) /\ \A i \in 1..Len(a) : LinkEq(a[i], b[i])

MatrixEq(a, b) ==
    /\ Len(a) = Len(b)
    /\ \A r \in 1..Len(a) :
        /\ Len(a[r]) = Len(b[r])
        /\ \A c \in 1..Len(a[r]) : CellEq(a[r][c], b[r][c])

(***************************************************************************)
(* sm/dataset.py: FullTable                                                *)
(***************************************************************************)

FullTable(table, context, links) ==
    [table |-> table, context |-> context, links |-> links]

\* FullTable.nrows().
FullTableNRows(t) == TableNRows(t.table)

\* FullTable.select_rows(indices).
FullTableSelectRows(oid, t, indices) ==
    FullTable(TableSelectRows(oid, t.table, indices),
              t.context,
              [k \in 1..Len(indices) |-> t.links[indices[k] + 1]])

\* FullTable.keep_columns(columns, reindex).
FullTableKeepColumns(oid, t, columns, reindex) ==
    FullTable(TableKeepColumns(oid, t.table, columns, reindex),
              t.context,
              [r \in 1..Len(t.links) |->
                  [k \in 1..Len(columns) |-> t.links[r][columns[k] + 1]]])

\* FullTable.to_dict().
FullTableToDict(t) ==
    [version |-> "int 2",
     table |-> TableToDict(t.table),
     context |-> ContextToDict(t.context),
     links |-> [r \in 1..Len(t.links) |->
                  [c \in 1..Len(t.links[r]) |->
                      [i \in 1..Len(t.links[r][c]) |-> LinkToDict(t.links[r][c][i])]]]]

\* FullTable.from_dict(obj), on a record that has "links".
FullTableFromDict(oid, obj) ==
    LET table == TableFromDict(oid, obj.table)
        context == ContextFromDict(obj.context)
        links == [r \in 1..Len(obj.links) |->
                    [c \in 1..Len(obj.links[r]) |->
                        [i \in 1..Len(obj.links[r][c]) |->
                            LinkFromDict(obj.links[r][c][i])]]]
        linksOk == \A r \in 1..Len(links) : \A c \in 1..Len(links[r]) :
                       \A i \in 1..Len(links[r][c]) : links[r][c][i].ok
        value == FullTable(table.val, context.val,
                    [r \in 1..Len(links) |->
                        [c \in 1..Len(links[r]) |->
                            [i \in 1..Len(links[r][c]) |-> links[r][c][i].val]]])
    IN  IF obj.version \notin {"str 1.2", "str 1.1", "int 2"}
        THEN Raise("ValueError", value)
        ELSE IF ~table.ok THEN Raise(table.err, value)
        ELSE IF ~linksOk THEN Raise("ValueError", value)
        ELSE IF ~context.ok THEN Raise(context.err, value)
        ELSE Ok(value)

\* The dataclass __eq__ of FullTable: (table, context, links) as tuples.
FullTableEq(a, b) ==
    /\ TableEq(a.table, b.table)
    /\ ContextEq(a.context, b.context)
    /\ MatrixEq(a.links, b.links)

(***************************************************************************)
(* The FullTable values operations are called on.                          *)
(***************************************************************************)

CellValue(r, c) == 10 * r + c
ColName(c) == IF c = 0 THEN None ELSE "col"

ALink == Link(0, 2, "http://x", <<EntityId("Q1", "wikidata")>>)

AContext == Context("title", None, <<EntityId("Q5", "wikidata")>>, <<"h1">>)

\* A table of nr rows and nc columns; the cell at `linked` (if any) holds
\* one link, the others none.
MakeTable(oid, id, nr, nc) ==
    ColumnBasedTable(oid, id,
        [c \in 1..nc |-> Column(c - 1, ColName(c - 1),
                                [r \in 1..nr |-> CellValue(r - 1, c - 1)])])

MakeLinks(nr, nc, linked) ==
    [r \in 1..nr |-> [c \in 1..nc |-> IF <<r, c>> \in linked THEN <<ALink>> ELSE <<>>]]

\* What the constructors and the loader can build: a table of nr >= 1 rows
\* and nc >= 1 columns with an nr x nc link matrix, the table without
\* columns, and the table of a header without data rows, whose link matrix
\* Matrix.default gives no rows.
InputTables ==
    {FullTable(MakeTable(1, <<"t">>, nr, nc), ctx, MakeLinks(nr, nc, linked)) :
        <<nr, nc, ctx, linked>> \in
            {<<nr, nc, ctx, linked>> \in
                (0..MaxRows) \X (0..MaxCols) \X {EmptyContext, AContext}
                    \X ({{}} \cup {{<<r, c>>} : <<r, c>> \in (1..MaxRows) \X (1..MaxCols)}) :
                /\ linked \subseteq (1..nr) \X (1..nc)
                /\ nc = 0 => nr = 0}}

NoOut == [op |-> "none", indices |-> <<>>, reindex |-> FALSE,
          ok |-> TRUE, err |-> None, value |-> FullTable(ColumnBasedTable(0, <<>>, <<>>), EmptyContext, <<>>)]

\* No call of Dataset.load is under way.
LoadIdle ==
    [pc |-> "idle", root |-> <<>>, opened |-> "none", todo |-> <<>>,
     examples |-> <<>>, err |-> None, at |-> "none"]

\* The calls that are not being made.
EvalIdle ==
    /\ fsid = [pc |-> "idle"]
    /\ sample = [pc |-> "idle"]
    /\ prf = [pc |-> "idle"]
    /\ tr = [pc |-> "idle"]
    /\ misc = [pc |-> "idle"]

SaveIdle ==
    [pc |-> "idle", examples |-> <<>>, i |-> 0, batch_compressed |-> FALSE,
     batch_size |-> 1, individual_table_compressed |-> None,
     clean_previous_data |-> TRUE, err |-> None, before |-> {}]

InitTable ==
    /\ ft \in InputTables
    /\ out = NoOut
    /\ heap = 2
    /\ location = <<>>
    /\ fs = {}
    /\ load = LoadIdle
    /\ save = SaveIdle
    /\ EvalIdle

\* r = ft.select_rows(indices), for a list of row indices of the table.
SelectRows ==
    /\ out.op = "none"
    /\ \E indices \in SeqsUpTo(0..(FullTableNRows(ft) - 1), MaxSel) :
        out' = [op |-> "select_rows", indices |-> indices, reindex |-> FALSE,
                ok |-> TRUE, err |-> None,
                value |-> FullTableSelectRows(heap, ft, indices)]
    /\ heap' = heap + 1
    /\ UNCHANGED <<ft, loadVars, save, evalVars>>

\* r = ft.keep_columns(columns, reindex), for a list of column positions.
KeepColumns ==
    /\ out.op = "none"
    /\ \E columns \in SeqsUpTo(0..(Len(ft.table.columns) - 1), MaxSel), reindex \in BOOLEAN :
        out' = [op |-> "keep_columns", indices |-> columns, reindex |-> reindex,
                ok |-> TRUE, err |-> None,
                value |-> FullTableKeepColumns(heap, ft, columns, reindex)]
    /\ heap' = heap + 1
    /\ UNCHANGED <<ft, loadVars, save, evalVars>>

\* r = FullTable.from_dict(ft.to_dict()).
RoundTrip ==
    /\ out.op = "none"
    /\ LET r == FullTableFromDict(heap, FullTableToDict(ft))
       IN  out' = [op |-> "round_trip", indices |-> <<>>, reindex |-> FALSE,
                   ok |-> r.ok, err |-> r.err, value |-> r.val]
    /\ heap' = heap + 1
    /\ UNCHANGED <<ft, loadVars, save, evalVars>>

NextTable == SelectRows \/ KeepColumns \/ RoundTrip

SpecTable == InitTable /\ [][NextTable]_vars

(***************************************************************************)
(* Claims about FullTable (checked under SpecTable).                       *)
(***************************************************************************)

\* The receiver satisfies links.shape() == table.shape().
ShapesAgree(t) ==
    /\ MatrixShape(t.links).ok
    /\ MatrixShape(t.links).val = TableShape(t.table)

\* C1: for every FullTable t with t.links.shape() == t.table.shape(), every
\* index list given to select_rows and every column list given to
\* keep_columns (the empty list and repeated indices included), the
\* FullTable returned has links.shape() == table.shape().
C1_ShapePreserved ==
    (out.op \in {"select_rows", "keep_columns"} /\ ShapesAgree(ft))
        => (out.ok /\ ShapesAgree(out.value))

\* C2: for a FullTable t with at least one column and a rectangular link
\* matrix, FullTable.from_dict(t.to_dict()) has the same table id, columns,
\* context and per-cell link lists as t, and == reports the two equal.
C2_RoundTripEqual ==
    (out.op = "round_trip" /\ Len(ft.table.columns) >= 1 /\ MatrixShape(ft.links).ok)
        => /\ out.ok
           /\ out.value.table.table_id = ft.table.table_id
           /\ out.value.table.columns = ft.table.columns
           /\ out.value.context = ft.context
           /\ out.value.links = ft.links
           /\ FullTableEq(out.value, ft)

(***************************************************************************)
(* File names.  A name is the sequence of its characters; a path is the    *)
(* sequence of its components' names.                                      *)
(***************************************************************************)

\* The characters of the names used, in code point order (str < str).
Alphabet ==
    <<"-", ".", "/", "0", "1", "2", "3", "4", "5", "6", "7", "8", "9", "B", "R", "T", "_", "a", "b", "c", "d",
      "e", "g", "h", "i", "j", "l", "m", "n", "o", "p", "r", "s", "t", "v", "x", "y", "z">>

Ord(ch) == CHOOSE i \in 1..Len(Alphabet) : Alphabet[i] = ch

\* a < b on str: lexicographic by code point.
LexLess(a, b) ==
    \E k \in 1..(Len(b)) :
        /\ k <= Len(a) + 1
        /\ \A i \in 1..(k - 1) : a[i] = b[i]
        /\ (k = Len(a) + 1 \/ Ord(a[k]) < Ord(b[k]))

\* sorted(names): ascending.
RECURSIVE SortNames(_)
SortNamesDescending(S) ==
    IF S = {} THEN <<>>
    ELSE LET m == CHOOSE x \in S : \A y \in S \ {x} : LexLess(y, x)
         IN  <<m>> \o SortNames(S \ {m})

SortNames(S) ==
    IF S = {} THEN <<>>
    ELSE LET m == CHOOSE x \in S : \A y \in S \ {x} : LexLess(x, y)
         IN  <<m>> \o SortNames(S \ {m})

StartsWith(s, p) == Len(p) <= Len(s) /\ SubSeq(s, 1, Len(p)) = p
EndsWith(s, p) == Len(p) <= Len(s) /\ SubSeq(s, Len(s) - Len(p) + 1, Len(s)) = p

\* s.split(ch).
RECURSIVE Split(_, _)
Split(s, ch) ==
    IF \A i \in 1..Len(s) : s[i] # ch THEN <<s>>
    ELSE LET i == CHOOSE j \in 1..Len(s) : s[j] = ch /\ \A k \in 1..(j - 1) : s[k] # ch
         IN  <<SubSeq(s, 1, i - 1)>> \o Split(SubSeq(s, i + 1, Len(s)), ch)

\* s.lstrip(ch).
RECURSIVE LStrip(_, _)
LStrip(s, ch) ==
    IF s # <<>> /\ s[1] = ch THEN LStrip(Tail(s), ch) ELSE s

\* pathlib's name of a path string: what follows the last "/".
BaseName(filename) ==
    LET parts == Split(filename, "/") IN parts[Len(parts)]

\* pathlib's PurePath.suffixes of a name.
Suffixes(name) ==
    IF name # <<>> /\ name[Len(name)] = "." THEN <<>>
    ELSE LET parts == Split(LStrip(name, "."), ".")
         IN  [i \in 1..(Len(parts) - 1) |-> <<".">> \o parts[i + 1]]

\* pathlib's PurePath.stem of a name: the name without its last suffix.
Stem(name) ==
    LET dots == {i \in 1..Len(name) : name[i] = "."}
        i == IF dots = {} THEN 0 ELSE CHOOSE j \in dots : \A k \in dots : k <= j
    IN  IF 1 < i /\ i < Len(name) THEN SubSeq(name, 1, i - 1) ELSE name

RECURSIVE SumLen(_)
SumLen(ss) == IF ss = <<>> THEN 0 ELSE Len(Head(ss)) + SumLen(Tail(ss))

Digits == <<"0", "1", "2", "3", "4", "5", "6", "7", "8", "9">>

IsDigit(ch) == \E i \in 1..Len(Digits) : Digits[i] = ch
DigitVal(ch) == (CHOOSE i \in 1..Len(Digits) : Digits[i] = ch) - 1

\* int(s) of a string of decimal digits; ValueError otherwise.
RECURSIVE DigitsValue(_)
DigitsValue(s) ==
    IF s = <<>> THEN 0
    ELSE 10 * DigitsValue(SubSeq(s, 1, Len(s) - 1)) + DigitVal(s[Len(s)])

ParseInt(s) ==
    IF s # <<>> /\ \A i \in 1..Len(s) : IsDigit(s[i])
    THEN Ok(DigitsValue(s))
    ELSE Raise("ValueError", 0)

JSON == <<".", "j", "s", "o", "n">>
YML == <<".", "y", "m", "l">>
CSV == <<".", "c", "s", "v">>
XLSX == <<".", "x", "l", "s", "x">>
ZIP == <<".", "z", "i", "p">>
GZ == <<".", "g", "z">>
BZ2 == <<".", "b", "z", "2">>
LZ4 == <<".", "l", "z", "4">>
DESCRIPTIONS == <<"descriptions">>
TABLES == <<"tables">>

(***************************************************************************)
(* The file system under Dataset.location: the entries of a directory      *)
(* tree or of a zip archive.  An entry has a path, is a file or a          *)
(* directory, and a file has contents: a table (its id and shape), a list  *)
(* of semantic models, or, for a zip file, its members in archive order.   *)
(***************************************************************************)

File(path, table_id, nrows, ncols, models, members) ==
    [path |-> path, kind |-> "file", table_id |-> table_id, nrows |-> nrows,
     ncols |-> ncols, models |-> models, members |-> members]

Dir(path) ==
    [path |-> path, kind |-> "dir", table_id |-> <<>>, nrows |-> 0,
     ncols |-> 0, models |-> <<>>, members |-> <<>>]

Member(filename, table_id, nrows, ncols, models) ==
    [filename |-> filename, table_id |-> table_id, nrows |-> nrows,
     ncols |-> ncols, models |-> models]

IsPrefix(p, q) == Len(p) <= Len(q) /\ SubSeq(q, 1, Len(p)) = p

\* Path.exists() / zipfile.Path.exists().
Exists(f, p) == p = <<>> \/ \E e \in f : IsPrefix(p, e.path)

IsFile(f, p) == \E e \in f : e.path = p /\ e.kind = "file"

\* The names of Path.iterdir() / zipfile.Path.iterdir(), in no order.
IterDir(f, p) ==
    {e.path[Len(p) + 1] : e \in {x \in f : IsPrefix(p, x.path) /\ Len(x.path) > Len(p)}}

FileAt(f, p) == CHOOSE e \in f : e.path = p

\* Dataset.is_zip_file().
IsZipFile(loc) == EndsWith(loc, ZIP)

\* Dataset._open up to its yield: the root it gives the caller, or the
\* format error.
OpenRootAnySubdir(loc, f) ==
    IF IsZipFile(loc)
    THEN IF Exists(f, <<DESCRIPTIONS>>)
         THEN Ok([root |-> <<>>, opened |-> "archive root"])
         ELSE LET subdirs == IterDir(f, <<>>)
              IN  IF \E d \in subdirs : Exists(f, <<d, DESCRIPTIONS>>)
                  THEN Ok([root |-> <<CHOOSE d \in subdirs : Exists(f, <<d, DESCRIPTIONS>>)>>,
                           opened |-> "subdirectory"])
                  ELSE Raise("ValueError: Invalid dataset format",
                             [root |-> <<>>, opened |-> "none"])
    ELSE Ok([root |-> <<>>, opened |-> "directory"])

OpenRoot(loc, f) ==
    IF IsZipFile(loc)
    THEN IF Exists(f, <<DESCRIPTIONS>>)
         THEN Ok([root |-> <<>>, opened |-> "archive root"])
         ELSE LET subdirs == IterDir(f, <<>>)
              IN  IF Cardinality(subdirs) = 1
                     /\ Exists(f, <<CHOOSE d \in subdirs : TRUE, DESCRIPTIONS>>)
                  THEN Ok([root |-> <<CHOOSE d \in subdirs : TRUE>>,
                           opened |-> "subdirectory"])
                  ELSE Raise("ValueError: Invalid dataset format",
                             [root |-> <<>>, opened |-> "none"])
    ELSE Ok([root |-> <<>>, opened |-> "directory"])

\* Dataset._open after its yield, when the with block ends: the generator
\* runs on.  After "yield root" it falls through to the subdirectory test,
\* which yields again (contextlib: RuntimeError) or raises the format
\* error; after "yield subdirs[0]" and "yield self.location" it ends.
CloseRoot(f, opened) ==
    IF opened = "archive root"
    THEN LET subdirs == IterDir(f, <<>>)
         IN  IF Cardinality(subdirs) = 1
                /\ Exists(f, <<CHOOSE d \in subdirs : TRUE, DESCRIPTIONS>>)
             THEN Raise("RuntimeError: generator didn't stop", opened)
             ELSE Raise("ValueError: Invalid dataset format", opened)
    ELSE Ok(opened)

(***************************************************************************)
(* Dataset.load: the tables.                                               *)
(***************************************************************************)

\* orjson.loads(data) of a table file: the FullTable record stored in it.
JsonTable(entry) ==
    FullTableToDict(
        FullTable(MakeTable(0, entry.table_id, entry.nrows, entry.ncols),
                  EmptyContext, MakeLinks(entry.nrows, entry.ncols, {})))

\* pd.read_csv / pd.read_excel of a table file: the header and the rows.
ReadDataFrame(entry) ==
    [columns |-> [c \in 1..entry.ncols |-> ColName(c)],
     rows |-> [r \in 1..entry.nrows |-> [c \in 1..entry.ncols |-> CellValue(r - 1, c - 1)]]]

\* ColumnBasedTable.from_dataframe(df, table_id).
FromDataFrame(oid, df, table_id) ==
    ColumnBasedTable(oid, table_id,
        [ci \in 1..Len(df.columns) |->
            Column(ci - 1, df.columns[ci],
                   [ri \in 1..Len(df.rows) |-> df.rows[ri][ci]])])

\* The name of a file of the dataset or of a member of a zip.
EntryName(entry) ==
    IF "path" \in DOMAIN entry THEN entry.path[Len(entry.path)] ELSE entry.filename

\* deser_table(table_id, data, ext).
DeserTable(oid, table_id, entry, ext) ==
    IF ext = JSON
    THEN IF \E z \in {GZ, BZ2, LZ4} : EndsWith(EntryName(entry), z)
         THEN \* the bytes of a compressed file are handed to orjson.loads as they are
              Raise("JSONDecodeError",
                    FullTable(ColumnBasedTable(oid, <<>>, <<>>), EmptyContext, <<>>))
         ELSE FullTableFromDict(oid, JsonTable(entry))
    ELSE IF ext \in {CSV, XLSX}
    THEN LET table == FromDataFrame(oid, ReadDataFrame(entry), table_id)
         IN  Ok(FullTable(table, EmptyContext, MatrixDefault(TableShape(table))))
    ELSE Raise("ValueError: Unknown file type",
               FullTable(ColumnBasedTable(oid, <<>>, <<>>), EmptyContext, <<>>))

\* Example(id, sms, table); file records the entry of tables/ it was
\* built from (history, not a field of the code's Example).
Example(id, sms, table, file) ==
    [id |-> id, sms |-> sms, table |-> table, file |-> file]

\* The loop's test for the entries it passes over.
IsSkipped(name) == StartsWith(name, <<".">>) \/ Len(Suffixes(name)) = 0

\* infile.name[: -sum(len(x) for x in suffixes)].
ExampleId(name) == SubSeq(name, 1, Len(name) - SumLen(Suffixes(name)))

(***************************************************************************)
(* Dataset.load: the descriptions of a single-table file.                  *)
(***************************************************************************)

\* int(file.name.split(".")[1]).
VersionOf(name) ==
    LET parts == Split(name, ".")
    IN  IF Len(parts) < 2 THEN Raise("IndexError", 0) ELSE ParseInt(parts[2])

\* The files max(..., key=version) may return: those of the largest
\* version (the first of them in iterdir's order, which is any of them).
NewestVersionsByName(files) ==
    {n \in files : \A m \in files \ {n} : LexLess(m, n)}

NewestVersions(files) ==
    {n \in files : \A m \in files : VersionOf(m).val <= VersionOf(n).val}

\* The semantic models read from a description file (JSON or YAML).
ReadSms(f, path) == FileAt(f, path).models

\* The branch of load that finds and reads the description of example_id:
\* every result it can have.
DescribeTableAlways(f, root, example_id) ==
    LET descdir == root \o <<DESCRIPTIONS>>
        jsonf == descdir \o <<example_id \o JSON>>
        ymlf == descdir \o <<example_id \o YML>>
    IN  IF Exists(f, jsonf) THEN {Ok(ReadSms(f, jsonf))}
        ELSE IF Exists(f, ymlf) THEN {Ok(ReadSms(f, ymlf))}
        ELSE {Raise("AssertionError", <<>>)}

DescribeTable(f, root, example_id) ==
    LET descdir == root \o <<DESCRIPTIONS>>
        dir == descdir \o <<example_id>>
        files == IterDir(f, dir)
        jsonf == descdir \o <<example_id \o JSON>>
        ymlf == descdir \o <<example_id \o YML>>
    IN  IF ~Exists(f, descdir) THEN {Ok(<<>>)}
        ELSE IF Exists(f, dir)
        THEN IF files = {} THEN {Raise("ValueError", <<>>)}
             ELSE IF \E n \in files : ~VersionOf(n).ok
             THEN {Raise(VersionOf(n).err, <<>>) : n \in {m \in files : ~VersionOf(m).ok}}
             ELSE {Ok(ReadSms(f, dir \o <<n>>)) : n \in NewestVersions(files)}
        ELSE IF Exists(f, jsonf) THEN {Ok(ReadSms(f, jsonf))}
        ELSE IF Exists(f, ymlf) THEN {Ok(ReadSms(f, ymlf))}
        ELSE {Raise("AssertionError", <<>>)}

(***************************************************************************)
(* Dataset.load: a nested part zip.                                        *)
(***************************************************************************)

\* part[key] = value on a dict kept in insertion order.
DictHas(d, key) == \E i \in 1..Len(d) : d[i].key = key
DictGet(d, key) == d[CHOOSE i \in 1..Len(d) : d[i].key = key].val
DictSet(d, key, val) ==
    IF DictHas(d, key)
    THEN [i \in 1..Len(d) |-> IF d[i].key = key THEN [key |-> key, val |-> val] ELSE d[i]]
    ELSE Append(d, [key |-> key, val |-> val])

\* The loop over the members of tables/<name>.zip, from member i on.
RECURSIVE ReadPart(_, _, _, _)
ReadPart(members, i, part, oid) ==
    IF i > Len(members) THEN Ok(part)
    ELSE IF ~EndsWith(members[i].filename, JSON)
         THEN ReadPart(members, i + 1, part, oid)
         ELSE LET name == BaseName(members[i].filename)
                  t == DeserTable(oid + i - 1, Stem(name), members[i], Suffixes(name)[1])
              IN  IF t.ok
                  THEN ReadPart(members, i + 1, DictSet(part, Stem(name), t.val), oid)
                  ELSE Raise(t.err, part)

\* The loop over the members of descriptions/<name>.zip, from member i on.
RECURSIVE ReadPartDescriptions(_, _, _, _, _)
ReadPartDescriptions(members, i, part, lst, file) ==
    IF i > Len(members) THEN Ok(lst)
    ELSE LET table_id == Stem(BaseName(members[i].filename))
         IN  IF ~DictHas(part, table_id)
             THEN ReadPartDescriptions(members, i + 1, part, lst, file)
             ELSE IF ~EndsWith(members[i].filename, JSON)
             THEN Raise("AssertionError", lst)
             ELSE ReadPartDescriptions(members, i + 1, part,
                      Append(lst, Example(DictGet(part, table_id).table.table_id,
                                          members[i].models,
                                          DictGet(part, table_id), file)),
                      file)

\* The else branch of the loop body: everything done with tables/<name>,
\* a part zip; the examples it adds to the list, or the exception.
LoadPart(loc, f, root, name, oid) ==
    LET descdir == root \o <<DESCRIPTIONS>>
        part == ReadPart(FileAt(f, root \o <<TABLES, name>>).members, 1, <<>>, oid)
        described ==
            IF ~IsFile(f, descdir \o <<name>>) THEN Raise("FileNotFoundError", <<>>)
            ELSE ReadPartDescriptions(FileAt(f, descdir \o <<name>>).members, 1,
                                      part.val, <<>>, name)
        lst == IF Exists(f, descdir) THEN described
               ELSE Ok([i \in 1..Len(part.val) |->
                           Example(part.val[i].val.table.table_id, <<>>,
                                   part.val[i].val, name)])
    IN  IF IsZipFile(loc) THEN Raise("AssertionError: Must not be a zip file", <<>>)
        ELSE IF ~part.ok THEN Raise(part.err, <<>>)
        ELSE IF ~lst.ok THEN lst
        ELSE IF Len(lst.val) # Len(part.val) THEN Raise("AssertionError", <<>>)
        ELSE lst

(***************************************************************************)
(* Dataset.load as steps: entering the with block, one step per entry of   *)
(* tables/, leaving the with block.                                        *)
(***************************************************************************)

LoadRaise(at, e) == [load EXCEPT !.pc = "raised", !.err = e, !.at = at]

\* "with self._open() as root", and the sorted listing of tables/.
LoadOpen ==
    /\ load.pc = "start"
    /\ LET o == OpenRoot(location, fs)
       IN  load' =
             IF ~o.ok THEN LoadRaise("open", o.err)
             ELSE IF ~Exists(fs, o.val.root \o <<TABLES>>)
             THEN [LoadRaise("body", "FileNotFoundError") EXCEPT
                      !.root = o.val.root, !.opened = o.val.opened]
             ELSE [load EXCEPT !.pc = "loop", !.root = o.val.root,
                               !.opened = o.val.opened,
                               !.todo = SortNames(IterDir(fs, o.val.root \o <<TABLES>>))]
    /\ UNCHANGED <<tableVars, heap, location, fs, save, evalVars>>

\* A hidden entry or one without an extension: continue.
LoadSkip ==
    /\ load.pc = "loop"
    /\ load.todo # <<>>
    /\ IsSkipped(Head(load.todo))
    /\ load' = [load EXCEPT !.todo = Tail(load.todo)]
    /\ UNCHANGED <<tableVars, heap, location, fs, save, evalVars>>

\* An entry that is not a zip: one table and its description.
LoadTableFile ==
    /\ load.pc = "loop"
    /\ load.todo # <<>>
    /\ LET name == Head(load.todo)
           suffixes == Suffixes(name)
           table == DeserTable(heap, ExampleId(name),
                               FileAt(fs, load.root \o <<TABLES, name>>), suffixes[1])
       IN  /\ ~IsSkipped(name)
           /\ suffixes[Len(suffixes)] # ZIP
           /\ \E d \in DescribeTable(fs, load.root, ExampleId(name)) :
                load' =
                  IF ~table.ok THEN LoadRaise("body", table.err)
                  ELSE IF ~d.ok THEN LoadRaise("body", d.err)
                  ELSE [load EXCEPT
                          !.todo = Tail(load.todo),
                          !.examples = Append(load.examples,
                              Example(table.val.table.table_id, d.val, table.val, name))]
    /\ heap' = heap + 1
    /\ UNCHANGED <<tableVars, location, fs, save, evalVars>>

\* An entry that is a zip: the tables of a part and their descriptions.
LoadPartZip ==
    /\ load.pc = "loop"
    /\ load.todo # <<>>
    /\ LET name == Head(load.todo)
           suffixes == Suffixes(name)
           lst == LoadPart(location, fs, load.root, name, heap)
       IN  /\ ~IsSkipped(name)
           /\ suffixes[Len(suffixes)] = ZIP
           /\ load' =
                IF ~lst.ok THEN LoadRaise("body", lst.err)
                ELSE [load EXCEPT !.todo = Tail(load.todo),
                                  !.examples = load.examples \o lst.val]
           /\ heap' = heap + Len(FileAt(fs, load.root \o <<TABLES, name>>).members)
    /\ UNCHANGED <<tableVars, location, fs, save, evalVars>>

\* "return examples" leaves the with block: the generator of _open resumes.
LoadClose ==
    /\ load.pc = "loop"
    /\ load.todo = <<>>
    /\ LET c == CloseRoot(fs, load.opened)
       IN  load' = IF c.ok THEN [load EXCEPT !.pc = "done"]
                   ELSE LoadRaise("close", c.err)
    /\ UNCHANGED <<tableVars, heap, location, fs, save, evalVars>>

NextLoad == LoadOpen \/ LoadSkip \/ LoadTableFile \/ LoadPartZip \/ LoadClose

(***************************************************************************)
(* The datasets load is called on.                                         *)
(***************************************************************************)

MaxFiles == 3       \* entries of tables/
MaxExtra == 1       \* further top-level entries beside the dataset's
MaxVersions == 2    \* files of a directory descriptions/<id>/
MaxMembers == 2     \* members of a part zip

DS == <<"d", "s">>
N_a_json == <<"a">> \o JSON
N_B_json == <<"B">> \o JSON
N_b_csv == <<"b">> \o CSV
N_c_xlsx == <<"c">> \o XLSX
N_hidden == <<".", "h">> \o JSON
N_noext == <<"R">>
N_txt == <<"n", ".", "t", "x", "t">>
N_part == <<"p">> \o ZIP
N_a_json_gz == <<"a">> \o JSON \o GZ
TableNames ==
    {N_a_json, N_B_json, N_b_csv, N_c_xlsx, N_hidden, N_noext, N_txt, N_part, N_a_json_gz}

VERSION == <<"v", "e", "r", "s", "i", "o", "n">>
V_9 == VERSION \o <<".", "9">> \o JSON
V_10 == VERSION \o <<".", "1", "0">> \o JSON
V_01 == VERSION \o <<".", "0", "1">> \o JSON
V_1_yml == VERSION \o <<".", "1">> \o YML
V_bad == VERSION \o <<".", "x">> \o JSON
VersionNames == {V_9, V_10, V_01, V_1_yml, V_bad}

M_a == <<"a">> \o JSON
M_b == <<"b">> \o JSON
M_d_a == <<"d", "/", "a">> \o JSON
M_a_yml == <<"a">> \o YML
M_txt == <<"n", ".", "t", "x", "t">>
TableMemberNames == {M_a, M_b, M_d_a, M_txt}
DescMemberNames == {M_a, M_b, M_d_a, M_a_yml}

SubsetsUpTo(S, n) == {x \in SUBSET S : Cardinality(x) <= n}

\* The table id stored in a JSON table named name.
StoredId(name) == <<"T">> \o name

\* The one model of a description: named after the file it is stored in.
ModelAt(path) == <<path>>
ModelOfMember(zipname, i, filename) == <<<<zipname, <<Digits[i + 1]>>, filename>>>>

\* A dataset: where it is, and what it holds.
\*   zip, prefix, extra: a zip archive or a directory; the dataset at the
\*     root or under the top-level entry ds; further top-level entries;
\*   listing: the entries of tables/;
\*   hasDesc, forms, versions: whether descriptions/ exists, and for each
\*     single-table file the forms its description has (<id>.json,
\*     <id>.yml, the directory <id>/ with one file per version);
\*   shape: the rows and columns of the csv and xlsx tables;
\*   tmembers, dzip, dmembers: the members of the part zip of tables/ and
\*     of descriptions/ (if descriptions/ has that zip).
DefaultDataset ==
    [zip |-> FALSE, prefix |-> <<>>, extra |-> 0, listing |-> {N_a_json},
     hasDesc |-> TRUE, forms |-> {"json"}, versions |-> {V_01},
     shape |-> <<1, 1>>, tmembers |-> <<M_a>>, dzip |-> TRUE, dmembers |-> <<M_a>>]

TableEntry(ds, name) ==
    LET path == ds.prefix \o <<TABLES, name>>
        ext == IF Suffixes(name) = <<>> THEN <<>> ELSE Suffixes(name)[Len(Suffixes(name))]
    IN  IF ext = ZIP
        THEN File(path, <<>>, 0, 0, <<>>,
                  [i \in 1..Len(ds.tmembers) |->
                      Member(ds.tmembers[i], StoredId(ds.tmembers[i]), 1, 1, <<>>)])
        ELSE IF ext \in {CSV, XLSX}
        THEN File(path, <<>>, ds.shape[1], ds.shape[2], <<>>, <<>>)
        ELSE File(path, StoredId(name), 1, 1, <<>>, <<>>)

DescEntries(ds, name) ==
    LET descdir == ds.prefix \o <<DESCRIPTIONS>>
        id == ExampleId(name)
        ext == Suffixes(name)[Len(Suffixes(name))]
    IN  IF IsSkipped(name) THEN {}
        ELSE IF ext = ZIP
        THEN IF ds.dzip
             THEN {File(descdir \o <<name>>, <<>>, 0, 0, <<>>,
                        [i \in 1..Len(ds.dmembers) |->
                            Member(ds.dmembers[i], <<>>, 0, 0,
                                   ModelOfMember(name, i, ds.dmembers[i]))])}
             ELSE {}
        ELSE (IF "json" \in ds.forms
              THEN {File(descdir \o <<id \o JSON>>, <<>>, 0, 0,
                         ModelAt(descdir \o <<id \o JSON>>), <<>>)}
              ELSE {})
             \cup
             (IF "yml" \in ds.forms
              THEN {File(descdir \o <<id \o YML>>, <<>>, 0, 0,
                         ModelAt(descdir \o <<id \o YML>>), <<>>)}
              ELSE {})
             \cup
             (IF "dir" \in ds.forms
              THEN {File(descdir \o <<id, v>>, <<>>, 0, 0,
                         ModelAt(descdir \o <<id, v>>), <<>>) : v \in ds.versions}
              ELSE {})

ExtraName(k) == <<"x", Digits[k + 1]>>

BuildFs(ds) ==
    {Dir(ds.prefix \o <<TABLES>>)}
    \cup {TableEntry(ds, name) : name \in ds.listing}
    \cup (IF ds.hasDesc
          THEN {Dir(ds.prefix \o <<DESCRIPTIONS>>)}
               \cup UNION {DescEntries(ds, name) : name \in ds.listing}
          ELSE {})
    \cup {File(<<ExtraName(k), <<"f">>>>, <<>>, 0, 0, <<>>, <<>>) : k \in 1..ds.extra}

\* Every layout, with and without descriptions/, over every listing.
LayoutDatasets ==
    {[DefaultDataset EXCEPT !.zip = z, !.prefix = pf, !.extra = x,
                            !.listing = l, !.hasDesc = h] :
        <<z, pf, x, l, h>> \in
            {<<z, pf, x, l, h>> \in
                BOOLEAN \X {<<>>, <<DS>>} \X (0..MaxExtra)
                    \X SubsetsUpTo(TableNames, MaxFiles) \X BOOLEAN :
                ~z => pf = <<>>}}

\* Every form of description of a single-table file.
DescribedDatasets ==
    {[DefaultDataset EXCEPT !.listing = l, !.forms = fm, !.versions = vs] :
        <<l, fm, vs>> \in
            {<<l, fm, vs>> \in
                {{N_a_json}, {N_b_csv, N_a_json}} \X (SUBSET {"json", "yml", "dir"})
                    \X (SubsetsUpTo(VersionNames, MaxVersions) \ {{}}) :
                "dir" \notin fm => vs = {V_01}}}

\* Every shape of a csv or xlsx table.
SheetDatasets ==
    {[DefaultDataset EXCEPT !.listing = l, !.hasDesc = h, !.shape = <<nr, nc>>] :
        <<l, h, nr, nc>> \in
            {{N_b_csv}, {N_c_xlsx}} \X BOOLEAN \X (0..MaxRows) \X (1..MaxCols)}

\* Every part zip and description zip.
PartDatasets ==
    {[DefaultDataset EXCEPT !.listing = {N_part}, !.hasDesc = h, !.dzip = dz,
                            !.tmembers = tm, !.dmembers = dm] :
        <<h, dz, tm, dm>> \in
            {<<h, dz, tm, dm>> \in
                BOOLEAN \X BOOLEAN \X SeqsUpTo(TableMemberNames, MaxMembers)
                    \X SeqsUpTo(DescMemberNames, MaxMembers) :
                /\ ~h => dz
                /\ (~h \/ ~dz) => dm = <<>>}}

Datasets == LayoutDatasets \cup DescribedDatasets \cup SheetDatasets \cup PartDatasets

LoadStart == [LoadIdle EXCEPT !.pc = "start"]

InitLoad ==
    /\ \E ds \in Datasets :
        /\ location = (IF ds.zip THEN DS \o ZIP ELSE DS)
        /\ fs = BuildFs(ds)
    /\ load = LoadStart
    /\ save = SaveIdle
    /\ EvalIdle
    /\ ft = FullTable(ColumnBasedTable(0, <<>>, <<>>), EmptyContext, <<>>)
    /\ out = NoOut
    /\ heap = 1

SpecLoad == InitLoad /\ [][NextLoad]_vars

(***************************************************************************)
(* Claims about Dataset.load (checked under SpecLoad).                     *)
(***************************************************************************)

Terminated == load.pc \in {"done", "raised"}

\* The entries of tables/ under root r that load builds examples from.
Listing(r) == IterDir(fs, r \o <<TABLES>>)
Visible(r) == {n \in Listing(r) : ~StartsWith(n, <<".">>) /\ Suffixes(n) # <<>>}
LastSuffix(n) == Suffixes(n)[Len(Suffixes(n))]
\* A single-table file stored as it is: .json, .csv or .xlsx, not compressed.
IsSingleTable(n) ==
    Suffixes(n)[1] \in {JSON, CSV, XLSX} /\ LastSuffix(n) \notin {ZIP, GZ, BZ2, LZ4}

ExampleFiles == [i \in 1..Len(load.examples) |-> load.examples[i].file]

\* C3: when the location is a zip archive with descriptions/ and tables/ at
\* its root, load uses the archive root as the dataset root and returns the
\* examples: a call whose loop over tables/ raised nothing does not raise.
C3_ArchiveRootLoads ==
    (/\ IsZipFile(location)
     /\ Exists(fs, <<DESCRIPTIONS>>)
     /\ Exists(fs, <<TABLES>>)
     /\ Terminated
     /\ load.at # "body")
        => (load.pc = "done" /\ load.root = <<>>)

\* C4: when the location is a zip archive without descriptions/ at its root
\* and with more than one top-level entry, load fails with ValueError
\* "Invalid dataset format" and returns no examples.
MultiEntryArchive ==
    /\ IsZipFile(location)
    /\ ~Exists(fs, <<DESCRIPTIONS>>)
    /\ Cardinality(IterDir(fs, <<>>)) > 1

C4_MultiEntryArchiveRejected ==
    (MultiEntryArchive /\ load.pc # "start")
        => /\ load.pc = "raised"
           /\ load.err = "ValueError: Invalid dataset format"
           /\ load.examples = <<>>

\* A rejected archive one of whose top-level entries holds descriptions/.
C4_Witness ==
    /\ MultiEntryArchive
    /\ \E d \in IterDir(fs, <<>>) : Exists(fs, <<d, DESCRIPTIONS>>)
    /\ load.pc = "raised"

\* The roots a dataset can have under the location, and a location none of
\* which has descriptions/.
DatasetRoots ==
    IF IsZipFile(location) THEN {<<>>} \cup {<<d>> : d \in IterDir(fs, <<>>)} ELSE {<<>>}

NoDescriptions == \A r \in DatasetRoots : ~Exists(fs, r \o <<DESCRIPTIONS>>)

\* tables/ exists under r and holds only entries load can read.
TablesReadable(r) ==
    /\ Exists(fs, r \o <<TABLES>>)
    /\ \A n \in Visible(r) :
        \/ IsSingleTable(n)
        \/ LastSuffix(n) = ZIP /\ ~IsZipFile(location)

\* C5 as stated: if descriptions/ does not exist under the dataset root,
\* load succeeds and every example has an empty model list, whether the
\* root is a plain directory or a zip archive, part zips included.
C5_NoDescriptionsAnyRoot ==
    (/\ NoDescriptions
     /\ \E r \in DatasetRoots : TablesReadable(r)
     /\ Terminated)
        => /\ load.pc = "done"
           /\ \A i \in 1..Len(load.examples) : load.examples[i].sms = <<>>

\* C5 as amended: in a plain directory without descriptions/ load never
\* raises and every example, of a single-table file or of a part zip, has
\* an empty model list; a zip archive that has descriptions/ neither at its
\* root nor under a top-level entry is rejected with the format error.
C5_NoDescriptionsDirectory ==
    /\ (/\ ~IsZipFile(location)
        /\ ~Exists(fs, <<DESCRIPTIONS>>)
        /\ TablesReadable(<<>>))
           => /\ load.pc # "raised"
              /\ \A i \in 1..Len(load.examples) : load.examples[i].sms = <<>>
              /\ load.pc = "done" => Len(load.examples) >= Cardinality(Visible(<<>>) \ {N_part})
    /\ (IsZipFile(location) /\ NoDescriptions /\ load.pc # "start")
           => /\ load.pc = "raised"
              /\ load.err = "ValueError: Invalid dataset format"

\* A directory without descriptions/ loaded to the end, with an example of
\* a single-table file and one of a part zip.
C5_Witness ==
    /\ ~IsZipFile(location)
    /\ ~Exists(fs, <<DESCRIPTIONS>>)
    /\ load.pc = "done"
    /\ \E i, j \in 1..Len(load.examples) :
        /\ load.examples[i].file = N_part
        /\ IsSingleTable(load.examples[j].file)

\* C6: for a table id whose descriptions/<id>/ is a directory, load reads a
\* file of that directory whose version number (the integer between the
\* first and the second "." of its name) is numerically the largest; when
\* there is no such directory it reads descriptions/<id>.json if present,
\* else descriptions/<id>.yml; it fails when neither exists.
DescribedBy(r, n, sms) ==
    LET descdir == r \o <<DESCRIPTIONS>>
        id == ExampleId(n)
        dir == descdir \o <<id>>
    IN  IF Exists(fs, dir)
        THEN \E v \in IterDir(fs, dir) :
                /\ sms = FileAt(fs, dir \o <<v>>).models
                /\ \A w \in IterDir(fs, dir) :
                       ParseInt(Split(w, ".")[2]).val <= ParseInt(Split(v, ".")[2]).val
        ELSE IF IsFile(fs, descdir \o <<id \o JSON>>)
        THEN sms = FileAt(fs, descdir \o <<id \o JSON>>).models
        ELSE /\ IsFile(fs, descdir \o <<id \o YML>>)
             /\ sms = FileAt(fs, descdir \o <<id \o YML>>).models

C6_NewestDescription ==
    (load.pc \in {"loop", "done", "raised"} /\ Exists(fs, load.root \o <<DESCRIPTIONS>>))
        => /\ \A i \in 1..Len(load.examples) :
                LastSuffix(load.examples[i].file) # ZIP
                    => DescribedBy(load.root, load.examples[i].file, load.examples[i].sms)
           /\ \A n \in Visible(load.root) :
                (/\ LastSuffix(n) # ZIP
                 /\ ~Exists(fs, load.root \o <<DESCRIPTIONS, ExampleId(n)>>)
                 /\ ~Exists(fs, load.root \o <<DESCRIPTIONS, ExampleId(n) \o JSON>>)
                 /\ ~Exists(fs, load.root \o <<DESCRIPTIONS, ExampleId(n) \o YML>>))
                    => /\ load.pc # "done"
                       /\ \A i \in 1..Len(load.examples) : load.examples[i].file # n

\* An example described by version.10 of a directory that also holds
\* version.9.
C6_Witness ==
    \E i \in 1..Len(load.examples) :
        LET dir == load.root \o <<DESCRIPTIONS, ExampleId(load.examples[i].file)>>
        IN  /\ IterDir(fs, dir) = {V_9, V_10}
            /\ load.examples[i].sms = ModelAt(dir \o <<V_10>>)

\* C7: for a plain directory whose tables/ holds only single-table files
\* (.json, .csv, .xlsx, stored uncompressed), hidden files and files
\* without an extension, load returns exactly one
\* example per file that is not hidden and has an extension, in ascending
\* lexicographic order of file name; the hidden files and the files without
\* an extension add no example and raise nothing.
OnlySingleTables ==
    /\ ~IsZipFile(location)
    /\ Exists(fs, <<TABLES>>)
    /\ \A n \in Visible(<<>>) : IsSingleTable(n)

DescriptionsReadable ==
    \A n \in Visible(<<>>) : \A d \in DescribeTable(fs, <<>>, ExampleId(n)) : d.ok

C7_OneExamplePerVisibleFile ==
    OnlySingleTables
        => /\ Range(ExampleFiles) \subseteq Visible(<<>>)
           /\ \A i, j \in 1..Len(load.examples) :
                i < j => LexLess(ExampleFiles[i], ExampleFiles[j])
           /\ load.pc = "done"
                => /\ Range(ExampleFiles) = Visible(<<>>)
                   /\ Len(load.examples) = Cardinality(Visible(<<>>))
           /\ DescriptionsReadable => load.pc # "raised"

\* A directory with a hidden file or a file without an extension, loaded
\* to the end with two examples.
C7_Witness ==
    /\ OnlySingleTables
    /\ Listing(<<>>) # Visible(<<>>)
    /\ load.pc = "done"
    /\ Len(load.examples) = 2

\* C8: for a part zip tables/<name>.zip when descriptions/ exists,
\* descriptions/<name>.zip holds .json members only and no zip has two
\* members of one name: if every table of the
\* part has a member of the same stem in descriptions/<name>.zip, load
\* yields exactly one example per table of the part, each with the models
\* of its own description; if some table of the part has no such member,
\* load fails.
PartTables(r, n) ==
    {Stem(BaseName(m.filename)) :
        m \in {x \in Range(FileAt(fs, r \o <<TABLES, n>>).members) :
                  EndsWith(x.filename, JSON)}}

PartDescriptions(r, n, stem) ==
    {m \in Range(FileAt(fs, r \o <<DESCRIPTIONS, n>>).members) :
        EndsWith(m.filename, JSON) /\ Stem(BaseName(m.filename)) = stem}

C8_PartDescriptionsMatched ==
    \A n \in Listing(<<>>) :
        (/\ ~IsZipFile(location)
         /\ ~IsSkipped(n)
         /\ LastSuffix(n) = ZIP
         /\ Listing(<<>>) = {n}
         /\ IsFile(fs, <<DESCRIPTIONS, n>>)
         /\ \A m \in Range(FileAt(fs, <<DESCRIPTIONS, n>>).members) :
                EndsWith(m.filename, JSON)
         /\ \A z \in {FileAt(fs, <<DESCRIPTIONS, n>>), FileAt(fs, <<TABLES, n>>)} :
                \A i, j \in 1..Len(z.members) :
                    z.members[i].filename = z.members[j].filename => i = j
         /\ Terminated)
            => IF \A stem \in PartTables(<<>>, n) : PartDescriptions(<<>>, n, stem) # {}
               THEN /\ load.pc = "done"
                    /\ Len(load.examples) = Cardinality(PartTables(<<>>, n))
                    /\ \A stem \in PartTables(<<>>, n) :
                         \E i \in 1..Len(load.examples) :
                            \E m \in PartDescriptions(<<>>, n, stem) :
                                /\ load.examples[i].sms = m.models
                                /\ load.examples[i].table.table.table_id
                                      \in {StoredId(x.filename) :
                                            x \in {y \in Range(FileAt(fs, <<TABLES, n>>).members) :
                                                      Stem(BaseName(y.filename)) = stem}}
               ELSE load.pc = "raised"

\* C9: every FullTable load builds from a .csv or .xlsx file has an empty
\* Context, a link matrix of empty lists only, and links.shape() equal to
\* table.shape(), a table of a header and no data rows included.
C9_SheetTablesWellFormed ==
    \A i \in 1..Len(load.examples) :
        Suffixes(load.examples[i].file)[1] \in {CSV, XLSX}
            => LET t == load.examples[i].table
               IN  /\ t.context = EmptyContext
                   /\ \A r \in 1..Len(t.links) : \A c \in 1..Len(t.links[r]) :
                          t.links[r][c] = <<>>
                   /\ ShapesAgree(t)

(***************************************************************************)
(* get_friendly_fs_id.  A table id is a sequence of tokens: the scheme     *)
(* "http://" or "https://", a host name, an alphanumeric word, or one      *)
(* separator character.                                                    *)
(***************************************************************************)

HTTP == "http://"
HTTPS == "https://"
DBPEDIA == "dbpedia.org"
WIKIPEDIA == "wikipedia.org"
Words == {"a", "b", "A", "B", "resource", "wiki"}

\* str.lower() of a token.
Lower(tok) == CASE tok = "A" -> "a" [] tok = "B" -> "b" [] OTHER -> tok

RECURSIVE Replace(_, _, _)
\* str.replace(old, new).
Replace(s, old, new) ==
    IF Len(s) < Len(old) THEN s
    ELSE IF SubSeq(s, 1, Len(old)) = old
         THEN new \o Replace(SubSeq(s, Len(old) + 1, Len(s)), old, new)
         ELSE <<s[1]>> \o Replace(Tail(s), old, new)

RECURSIVE Collapse(_)
\* A run of "-" becomes one "-".
Collapse(s) ==
    IF Len(s) < 2 THEN s
    ELSE IF s[1] = "-" /\ s[2] = "-" THEN Collapse(Tail(s))
         ELSE <<s[1]>> \o Collapse(Tail(s))

RECURSIVE RStrip(_, _)
RStrip(s, ch) ==
    IF s # <<>> /\ s[Len(s)] = ch THEN RStrip(SubSeq(s, 1, Len(s) - 1), ch) ELSE s

\* slugify(text, lowercase=...) of python-slugify: every run of characters
\* other than letters and digits becomes one "-", and the "-" at both ends
\* are dropped.
Slugify(text, lowercase) ==
    LET dashed == [i \in 1..Len(text) |->
                      IF text[i] \in Words
                      THEN (IF lowercase THEN Lower(text[i]) ELSE text[i])
                      ELSE "-"]
    IN  RStrip(LStrip(Collapse(dashed), "-"), "-")

\* md5(id.encode()).hexdigest(), taken as free of collisions on the ids
\* considered.
Md5(id) == ToString(id)

\* urlparse(id).path of an id <<scheme, host, path tokens...>>.
UrlPath(id) == SubSeq(id, 3, Len(id))

\* The slug of the path alone, without the digest of the id.
UrlFsIdOfPath(id, marker) ==
    Replace(Slugify(Replace(Replace(UrlPath(id), <<"/", marker, "/">>, <<>>),
                            <<"/">>, <<"_">>), TRUE),
            <<"-">>, <<"_">>)

\* The name of a dbpedia / wikipedia id: the slug of the path after its
\* marker, "_" and the digest of the id.
UrlFsId(id, marker) ==
    Replace(Slugify(Replace(Replace(UrlPath(id), <<"/", marker, "/">>, <<>>),
                            <<"/">>, <<"_">>), TRUE),
            <<"-">>, <<"_">>) \o <<"_", Md5(id)>>

GetFriendlyFsId(id) ==
    IF id # <<>> /\ id[1] \in {HTTP, HTTPS}
    THEN IF DBPEDIA \in Range(id) THEN Ok(UrlFsId(id, "resource"))
         ELSE IF WIKIPEDIA \in Range(id) THEN Ok(UrlFsId(id, "wiki"))
         ELSE Raise("NotImplementedError", <<>>)
    ELSE Ok(Replace(Slugify(Replace(id, <<"/">>, <<"_">>), FALSE), <<"-">>, <<"_">>))

(***************************************************************************)
(* Dataset.save.                                                           *)
(***************************************************************************)

MaxExamples == 2    \* examples given to save
MaxBatch == 2       \* batch_size

\* pathlib: dir / name, where dir / "" is dir.
PathJoin(dir, name) == IF name = <<>> THEN dir ELSE dir \o <<name>>

\* A removal that removes nothing.
RmTreeKeep(f, p) == f

\* shutil.rmtree(p).
RmTree(f, p) == {e \in f : ~IsPrefix(p, e.path)}

\* Path.mkdir(exist_ok=True).
MkDir(f, p) ==
    IF IsFile(f, p) THEN Raise("FileExistsError", f)
    ELSE Ok(f \cup {Dir(p)})

\* A file opened for writing and written: what was at its path is replaced.
WriteFile(f, entry) == {e \in f : e.path # entry.path} \cup {entry}

\* batch(size, examples): the consecutive groups of at most size examples.
Batch(size, lst) ==
    [k \in 1..((Len(lst) + size - 1) \div size) |->
        SubSeq(lst, (k - 1) * size + 1,
               IF k * size < Len(lst) THEN k * size ELSE Len(lst))]

\* Every part under the name of the first one.
PartNameFirst(i) == <<"p", "a", "r", "t", "-", "0", "0", "0", "0">> \o ZIP

\* f"part-{i:04d}.zip".
PartName(i) == <<"p", "a", "r", "t", "-", "0", "0", "0", Digits[i + 1]>> \o ZIP

\* ".json" or f".json.{individual_table_compressed}".
TableSuffix(compressed) ==
    CASE compressed = None -> JSON
      [] compressed = "gz" -> JSON \o GZ
      [] compressed = "bz2" -> JSON \o BZ2
      [] compressed = "lz4" -> JSON \o LZ4

\* The serialised semantic models and the serialised table of an example.
DescriptionFile(path, e) == File(path, <<>>, 0, 0, e.sms, <<>>)

TableFile(path, e) ==
    File(path, e.table.table.table_id, TableShape(e.table.table)[1],
         TableShape(e.table.table)[2], <<>>, <<>>)

SaveRaise(e) == [save EXCEPT !.pc = "raised", !.err = e]

\* The start of save: the target must be a directory; descriptions/ and
\* tables/ are emptied if asked and created.
SavePrepare ==
    /\ save.pc = "start"
    /\ IF IsZipFile(location)
       THEN /\ save' = SaveRaise("AssertionError")
            /\ fs' = fs
       ELSE LET f1 == IF Exists(fs, <<DESCRIPTIONS>>) /\ save.clean_previous_data
                      THEN RmTree(fs, <<DESCRIPTIONS>>) ELSE fs
                d == MkDir(f1, <<DESCRIPTIONS>>)
                f2 == IF Exists(d.val, <<TABLES>>) /\ save.clean_previous_data
                      THEN RmTree(d.val, <<TABLES>>) ELSE d.val
                t == MkDir(f2, <<TABLES>>)
            IN  IF ~d.ok THEN save' = SaveRaise(d.err) /\ fs' = f1
                ELSE IF ~t.ok THEN save' = SaveRaise(t.err) /\ fs' = f2
                ELSE save' = [save EXCEPT !.pc = "write", !.i = 1] /\ fs' = t.val
    /\ UNCHANGED <<tableVars, heap, location, load, evalVars>>

\* One round of the per-example loop: the directory of the example's
\* descriptions, its version.01.json and its table file.
SaveExample ==
    /\ save.pc = "write"
    /\ ~save.batch_compressed
    /\ save.i <= Len(save.examples)
    /\ LET e == save.examples[save.i]
           slug == GetFriendlyFsId(e.table.table.table_id)
           dir == PathJoin(<<DESCRIPTIONS>>, slug.val)
           d == MkDir(fs, dir)
           compressed_filename == slug.val \o TableSuffix(save.individual_table_compressed)
       IN  IF ~slug.ok THEN save' = SaveRaise(slug.err) /\ fs' = fs
           ELSE IF ~d.ok THEN save' = SaveRaise(d.err) /\ fs' = fs
           ELSE /\ fs' = WriteFile(WriteFile(d.val, DescriptionFile(dir \o <<V_01>>, e)),
                                   TableFile(<<TABLES, compressed_filename>>, e))
                /\ save' = [save EXCEPT !.i = save.i + 1]
    /\ UNCHANGED <<tableVars, heap, location, load, evalVars>>

\* One round of the batched loop: the two part zips of a group, with one
\* member per example up to the first id that has no name.
SaveBatch ==
    /\ save.pc = "write"
    /\ save.batch_compressed
    /\ save.i <= Len(Batch(save.batch_size, save.examples))
    /\ LET bexamples == Batch(save.batch_size, save.examples)[save.i]
           filename == PartName(save.i - 1)
           slugs == [k \in 1..Len(bexamples) |->
                        GetFriendlyFsId(bexamples[k].table.table.table_id)]
           bad == {k \in 1..Len(bexamples) : ~slugs[k].ok}
           n == IF bad = {} THEN Len(bexamples)
                ELSE (CHOOSE k \in bad : \A j \in bad : k <= j) - 1
           dzf == [k \in 1..n |->
                      Member(slugs[k].val \o JSON, <<>>, 0, 0, bexamples[k].sms)]
           tzf == [k \in 1..n |->
                      Member(slugs[k].val \o JSON, bexamples[k].table.table.table_id,
                             TableShape(bexamples[k].table.table)[1],
                             TableShape(bexamples[k].table.table)[2], <<>>)]
       IN  /\ fs' = WriteFile(WriteFile(fs,
                        File(<<DESCRIPTIONS, filename>>, <<>>, 0, 0, <<>>, dzf)),
                        File(<<TABLES, filename>>, <<>>, 0, 0, <<>>, tzf))
           /\ save' = IF bad = {} THEN [save EXCEPT !.i = save.i + 1]
                      ELSE SaveRaise("NotImplementedError")
    /\ UNCHANGED <<tableVars, heap, location, load, evalVars>>

\* The loop is over: save returns.
SaveReturn ==
    /\ save.pc = "write"
    /\ save.i > (IF save.batch_compressed
                 THEN Len(Batch(save.batch_size, save.examples))
                 ELSE Len(save.examples))
    /\ save' = [save EXCEPT !.pc = "done"]
    /\ UNCHANGED <<tableVars, heap, location, fs, load, evalVars>>

NextSave == SavePrepare \/ SaveExample \/ SaveBatch \/ SaveReturn

(***************************************************************************)
(* The calls of save that are checked: the examples, the options and the   *)
(* target directory.                                                       *)
(***************************************************************************)

I_a == <<"a">>
I_B == <<"B">>
I_a_b == <<"a", "_", "b">>
I_a_space_b == <<"a", " ", "b">>
I_a_slash_b == <<"a", "/", "b">>
I_dbpedia == <<HTTP, DBPEDIA, "/", "resource", "/", "A", "_", "b">>
I_wikipedia == <<HTTPS, WIKIPEDIA, "/", "wiki", "/", "A", "_", "b">>
I_other == <<HTTP, "example.org", "/", "a">>
SaveIds == {I_a, I_B, I_a_b, I_a_space_b, I_a_slash_b, I_dbpedia, I_wikipedia, I_other}

SaveExampleOf(id) ==
    Example(id, <<<<id>>>>,
            FullTable(MakeTable(0, id, 1, 1), EmptyContext, MakeLinks(1, 1, {})),
            <<>>)

\* A target that holds an earlier dataset and a file beside it.
UsedTarget ==
    {Dir(<<DESCRIPTIONS>>), Dir(<<DESCRIPTIONS, <<"a">>>>),
     File(<<DESCRIPTIONS, <<"a">>, V_9>>, <<>>, 0, 0, ModelAt(<<V_9>>), <<>>),
     Dir(<<TABLES>>),
     File(<<TABLES, N_a_json>>, StoredId(N_a_json), 1, 1, <<>>, <<>>),
     File(<<TABLES, N_b_csv>>, <<>>, 1, 1, <<>>, <<>>),
     File(<<ExtraName(1)>>, <<>>, 0, 0, <<>>, <<>>)}

SaveCalls ==
    LET lists == {[i \in 1..Len(ids) |-> SaveExampleOf(ids[i])] :
                     ids \in SeqsUpTo(SaveIds, MaxExamples)}
        targets == {<<DS, {}, TRUE>>, <<DS, UsedTarget, TRUE>>, <<DS, UsedTarget, FALSE>>}
    IN  {[location |-> t[1], fs |-> t[2],
          save |-> [SaveIdle EXCEPT !.pc = "start", !.examples = l,
                                    !.clean_previous_data = t[3],
                                    !.individual_table_compressed = c]] :
            l \in lists, t \in targets, c \in {None, "gz", "bz2", "lz4"}}
        \cup
        {[location |-> t[1], fs |-> t[2],
          save |-> [SaveIdle EXCEPT !.pc = "start", !.examples = l,
                                    !.clean_previous_data = t[3],
                                    !.batch_compressed = TRUE, !.batch_size = b]] :
            l \in lists, t \in targets, b \in 1..MaxBatch}
        \cup
        {[location |-> DS \o ZIP, fs |-> {},
          save |-> [SaveIdle EXCEPT !.pc = "start", !.examples = l]] : l \in lists}

InitSave ==
    /\ \E call \in SaveCalls :
        /\ location = call.location
        /\ fs = call.fs
        /\ save = [call.save EXCEPT !.before = call.fs]
    /\ load = LoadIdle
    /\ ft = FullTable(ColumnBasedTable(0, <<>>, <<>>), EmptyContext, <<>>)
    /\ out = NoOut
    /\ heap = 1
    /\ EvalIdle

SpecSave == InitSave /\ [][NextSave]_vars

(***************************************************************************)
(* Claims about Dataset.save (checked under SpecSave).                     *)
(***************************************************************************)

SavedIds == {save.examples[i].table.table.table_id : i \in 1..Len(save.examples)}

\* C10: save in per-example mode, given n examples with pairwise distinct
\* table ids and an empty target, leaves exactly n directories under
\* descriptions/, each holding version.01.json, and exactly n files under
\* tables/.
C10_OneEntryPerExample ==
    (/\ save.pc = "done"
     /\ ~save.batch_compressed
     /\ Cardinality(SavedIds) = Len(save.examples)
     /\ save.before = {})
        => /\ Cardinality(IterDir(fs, <<DESCRIPTIONS>>)) = Len(save.examples)
           /\ \A d \in IterDir(fs, <<DESCRIPTIONS>>) :
                IsFile(fs, <<DESCRIPTIONS, d, V_01>>)
           /\ Cardinality(IterDir(fs, <<TABLES>>)) = Len(save.examples)

\* The examples of the i-th group (i from 0) of at most batch_size
\* consecutive examples.
GroupOf(i) ==
    LET lo == i * save.batch_size + 1
        hi == IF (i + 1) * save.batch_size < Len(save.examples)
              THEN (i + 1) * save.batch_size ELSE Len(save.examples)
    IN  SubSeq(save.examples, lo, hi)

GroupCount == (Len(save.examples) + save.batch_size - 1) \div save.batch_size

\* C11: save in batched mode writes the i-th group (from 0) of at most
\* batch_size consecutive examples to descriptions/part-<i as 4 digits>.zip
\* and tables/part-<i as 4 digits>.zip; the two zips of a part hold the same
\* member names, one member per example of the group, and every example is
\* in exactly one part.
C11_OnePartPerGroup ==
    (save.pc = "done" /\ save.batch_compressed)
        => /\ \A i \in 0..(GroupCount - 1) :
                LET name == <<"p", "a", "r", "t", "-", "0", "0", "0", Digits[i + 1]>> \o ZIP
                    group == GroupOf(i)
                IN  /\ IsFile(fs, <<DESCRIPTIONS, name>>)
                    /\ IsFile(fs, <<TABLES, name>>)
                    /\ LET dzf == FileAt(fs, <<DESCRIPTIONS, name>>).members
                           tzf == FileAt(fs, <<TABLES, name>>).members
                       IN  /\ Len(dzf) = Len(group)
                           /\ Len(tzf) = Len(group)
                           /\ \A k \in 1..Len(group) :
                                /\ dzf[k].filename = tzf[k].filename
                                /\ EndsWith(tzf[k].filename, JSON)
                                /\ tzf[k].table_id = group[k].table.table.table_id
                                /\ dzf[k].models = group[k].sms
           /\ save.before = {} =>
                /\ Cardinality(IterDir(fs, <<TABLES>>)) = GroupCount
                /\ Cardinality(IterDir(fs, <<DESCRIPTIONS>>)) = GroupCount

\* A batched save of two examples in two parts.
C11_Witness ==
    /\ save.pc = "done"
    /\ save.batch_compressed
    /\ save.batch_size = 1
    /\ Len(save.examples) = 2
    /\ IsFile(fs, <<TABLES, <<"p", "a", "r", "t", "-", "0", "0", "0", "1">> \o ZIP>>)

\* An entry under descriptions/ or tables/ (the two directories excluded),
\* and an entry that holds what save writes for the given examples.
InsideDataset(path) ==
    Len(path) > 1 /\ (IsPrefix(<<DESCRIPTIONS>>, path) \/ IsPrefix(<<TABLES>>, path))

SavedSms == {save.examples[i].sms : i \in 1..Len(save.examples)}

WrittenForExamples(e) ==
    IF e.kind = "dir"
    THEN \E x \in fs : x.kind = "file" /\ IsPrefix(e.path, x.path) /\ x.models \in SavedSms
    ELSE IF e.members # <<>>
    THEN \A k \in 1..Len(e.members) :
            e.members[k].models \in SavedSms \/ e.members[k].table_id \in SavedIds
    ELSE IF save.batch_compressed
    THEN EndsWith(e.path[Len(e.path)], ZIP) /\ e \notin save.before
    ELSE e.models \in SavedSms \/ e.table_id \in SavedIds

\* C12: with clean_previous_data=True save leaves under descriptions/ and
\* tables/ only the entries written for the given examples; with
\* clean_previous_data=False every entry that existed before the call is
\* still there, as it was or rewritten for an example; in both cases
\* nothing outside descriptions/ and tables/ is created, changed or deleted.
C12_SaveFrame ==
    save.pc \in {"write", "done", "raised"}
        => /\ (save.clean_previous_data /\ ~IsZipFile(location))
                => \A e \in fs : InsideDataset(e.path) => WrittenForExamples(e)
           /\ ~save.clean_previous_data
                => \A b \in save.before :
                      \E e \in fs : e.path = b.path /\ (e = b \/ WrittenForExamples(e))
           /\ {e \in fs : ~InsideDataset(e.path) /\ e.path \notin {<<DESCRIPTIONS>>, <<TABLES>>}}
                = {b \in save.before :
                      ~InsideDataset(b.path) /\ b.path \notin {<<DESCRIPTIONS>>, <<TABLES>>}}

\* A save over an earlier dataset that is kept: the table file of id "a" is
\* rewritten, the other earlier entries are still there.
C12_Witness ==
    /\ save.pc = "done"
    /\ ~save.clean_previous_data
    /\ save.before = UsedTarget
    /\ FileAt(fs, <<TABLES, N_a_json>>).table_id = I_a
    /\ IsFile(fs, <<DESCRIPTIONS, <<"a">>, V_9>>)
    /\ IsFile(fs, <<DESCRIPTIONS, <<"a">>, V_01>>)

(***************************************************************************)
(* Calls of get_friendly_fs_id on two ids.                                 *)
(***************************************************************************)

\* No dataset is being loaded or saved and no FullTable operated on.
DatasetIdle ==
    /\ location = <<>>
    /\ fs = {}
    /\ load = LoadIdle
    /\ save = SaveIdle
    /\ ft = FullTable(ColumnBasedTable(0, <<>>, <<>>), EmptyContext, <<>>)
    /\ out = NoOut

\* No function of sm.misc.funcs is being called.
MiscIdle == misc = [pc |-> "idle"]

UrlPaths ==
    {<<>>, <<"/", "resource", "/", "A">>, <<"/", "resource", "/", "a">>,
     <<"/", "wiki", "/", "A">>, <<"/", "resource", "/", "A", "_", "b">>,
     <<"/", "resource", "/", "A", "/", "b">>, <<"/", "A", " ", "b">>}

UrlIds ==
    {<<scheme, host>> \o path :
        scheme \in {HTTP, HTTPS}, host \in {DBPEDIA, WIKIPEDIA, "example.org"},
        path \in UrlPaths}

FsIdInputs == UrlIds \cup SaveIds \cup {<<"a", " ", DBPEDIA>>}

InitFsId ==
    /\ \E a \in FsIdInputs, b \in FsIdInputs :
          fsid = [pc |-> "first", ids |-> <<a, b>>, names |-> <<>>]
    /\ sample = [pc |-> "idle"]
    /\ prf = [pc |-> "idle"]
    /\ tr = [pc |-> "idle"]
    /\ DatasetIdle
    /\ MiscIdle
    /\ heap = 1

\* get_friendly_fs_id(ids[1]).
FsIdFirst ==
    /\ fsid.pc = "first"
    /\ fsid' = [fsid EXCEPT !.pc = "second",
                            !.names = <<GetFriendlyFsId(fsid.ids[1])>>]
    /\ UNCHANGED <<tableVars, heap, loadVars, save, sample, prf, tr, misc>>

\* get_friendly_fs_id(ids[2]).
FsIdSecond ==
    /\ fsid.pc = "second"
    /\ fsid' = [fsid EXCEPT !.pc = "done",
                            !.names = Append(fsid.names, GetFriendlyFsId(fsid.ids[2]))]
    /\ UNCHANGED <<tableVars, heap, loadVars, save, sample, prf, tr, misc>>

NextFsId == FsIdFirst \/ FsIdSecond

SpecFsId == InitFsId /\ [][NextFsId]_vars

\* An http(s) id of dbpedia.org or wikipedia.org.
IsKnowledgeBaseUrl(id) ==
    /\ id # <<>>
    /\ id[1] \in {HTTP, HTTPS}
    /\ DBPEDIA \in Range(id) \/ WIKIPEDIA \in Range(id)

MaxSampleRows == 3      \* rows of a table given to sample_table_data
MaxSampleN == 2         \* n_rows
MaxSeed == 1            \* seed
MaxEntropy == 1         \* states the system's entropy can seed
RngMod == 16            \* states of the generator

\* The seed argument: None, or an integer.
NoSeed == [none |-> TRUE, value |-> 0]
Seed(v) == [none |-> FALSE, value |-> v]

\* A generator that takes its state from the system whatever the seed.
RngOfEntropy(seed, entropy) == entropy

\* random.Random(seed): the state after seeding; entropy is what the
\* system supplies when the seed is None.
RngOfSeed(seed, entropy) ==
    IF seed.none THEN entropy ELSE (seed.value * 3 + 1) % RngMod

RngNext(st) == (st * 5 + 3) % RngMod

\* rng._randbelow(n), n > 0, drawn in state st.
RandBelow(st, n) == RngNext(st) % n

RECURSIVE SampleRepeating(_, _, _, _, _, _)
\* Draws that leave the pool as it is.
SampleRepeating(pool, n, k, i, st, result) ==
    IF i = k THEN [indices |-> result, rng |-> st]
    ELSE SampleRepeating(pool, n, k, i + 1, RngNext(st),
                         Append(result, pool[RandBelow(st, n) + 1]))

RECURSIVE SamplePool(_, _, _, _, _, _)
\* The loop of random.sample over a pool: the i-th result is pool[j] for a
\* drawn j below n - i, and pool[j] is replaced by the last live element.
SamplePool(pool, n, k, i, st, result) ==
    IF i = k THEN [indices |-> result, rng |-> st]
    ELSE LET j == RandBelow(st, n - i)
         IN  SamplePool([pool EXCEPT ![j + 1] = pool[n - i]], n, k, i + 1,
                        RngNext(st), Append(result, pool[j + 1]))

\* rng.sample(range(n), k).
RngSample(st, n, k) ==
    IF k < 0 \/ k > n
    THEN Raise("ValueError: Sample larger than population or is negative",
               [indices |-> <<>>, rng |-> st])
    ELSE Ok(SamplePool([x \in 1..n |-> x - 1], n, k, 0, st, <<>>))

\* An Example object: oid is its identity.
ExampleObject(oid, id, sms, table) ==
    [oid |-> oid, id |-> id, sms |-> sms, table |-> table]

SampleIdle == [pc |-> "idle"]

\* The examples given: the k-th is object k, of id <<"t", k>> and with one
\* model, its table has rows[k] rows and one column.
SampleExamples(rows) ==
    [k \in 1..Len(rows) |->
        ExampleObject(k, <<"t", Digits[k + 1]>>, <<<<<<"t", Digits[k + 1]>>>>>>,
                      FullTable(MakeTable(0, <<"t", Digits[k + 1]>>, rows[k], 1),
                                EmptyContext, MakeLinks(rows[k], 1, {})))]

InitSample ==
    /\ \E rows \in SeqsUpTo(0..MaxSampleRows, MaxExamples),
          n_rows \in (-1)..MaxSampleN,
          seed \in {NoSeed} \cup {Seed(v) : v \in 0..MaxSeed} :
          /\ sample = [pc |-> "start", examples |-> SampleExamples(rows),
                       n_rows |-> n_rows, seed |-> seed, call |-> 1, i |-> 1,
                       rng |-> 0, new_exs |-> <<>>, picked |-> <<>>, results |-> <<>>]
          /\ heap = Len(rows) + 1
    /\ fsid = [pc |-> "idle"]
    /\ prf = [pc |-> "idle"]
    /\ tr = [pc |-> "idle"]
    /\ DatasetIdle
    /\ MiscIdle

\* rng = random.Random(seed); new_exs = [].
SampleStart ==
    /\ sample.pc = "start"
    /\ \E entropy \in 0..MaxEntropy :
          sample' = [sample EXCEPT !.pc = "loop", !.i = 1, !.new_exs = <<>>,
                                   !.picked = <<>>,
                                   !.rng = RngOfSeed(sample.seed, entropy)]
    /\ UNCHANGED <<tableVars, heap, loadVars, save, fsid, prf, tr, misc>>

\* A round of the loop for a table of at most n_rows rows: the example
\* itself is appended.
SampleKeep ==
    /\ sample.pc = "loop"
    /\ sample.i <= Len(sample.examples)
    /\ LET ex == sample.examples[sample.i]
       IN  /\ FullTableNRows(ex.table) <= sample.n_rows
           /\ sample' = [sample EXCEPT
                           !.i = sample.i + 1,
                           !.new_exs = Append(sample.new_exs, ex),
                           !.picked = Append(sample.picked,
                                             [sampled |-> FALSE, indices |-> <<>>])]
    /\ UNCHANGED <<tableVars, heap, loadVars, save, fsid, prf, tr, misc>>

\* A round of the loop for a larger table: n_rows indices are sampled and a
\* new example of the rows selected is appended.
SampleSelect ==
    /\ sample.pc = "loop"
    /\ sample.i <= Len(sample.examples)
    /\ LET ex == sample.examples[sample.i]
           tbl_nrows == FullTableNRows(ex.table)
           drawn == RngSample(sample.rng, tbl_nrows, sample.n_rows)
       IN  /\ tbl_nrows > sample.n_rows
           /\ IF ~drawn.ok
              THEN sample' = [sample EXCEPT
                                !.pc = "return",
                                !.results = Append(sample.results,
                                    [ok |-> FALSE, err |-> drawn.err,
                                     new_exs |-> <<>>, picked |-> sample.picked])]
              ELSE sample' = [sample EXCEPT
                                !.i = sample.i + 1,
                                !.rng = drawn.val.rng,
                                !.new_exs = Append(sample.new_exs,
                                    ExampleObject(heap, ex.id, ex.sms,
                                        FullTableSelectRows(heap + 1, ex.table,
                                                            drawn.val.indices))),
                                !.picked = Append(sample.picked,
                                    [sampled |-> TRUE, indices |-> drawn.val.indices])]
    /\ heap' = heap + 2
    /\ UNCHANGED <<tableVars, loadVars, save, fsid, prf, tr, misc>>

\* return new_exs.
SampleReturn ==
    /\ sample.pc = "loop"
    /\ sample.i > Len(sample.examples)
    /\ sample' = [sample EXCEPT
                    !.pc = "return",
                    !.results = Append(sample.results,
                        [ok |-> TRUE, err |-> None, new_exs |-> sample.new_exs,
                         picked |-> sample.picked])]
    /\ UNCHANGED <<tableVars, heap, loadVars, save, fsid, prf, tr, misc>>

\* The caller calls again with the same arguments, once.
SampleAgain ==
    /\ sample.pc = "return"
    /\ sample' = [sample EXCEPT
                    !.pc = IF sample.call = 1 THEN "start" ELSE "done",
                    !.call = IF sample.call = 1 THEN 2 ELSE sample.call]
    /\ UNCHANGED <<tableVars, heap, loadVars, save, fsid, prf, tr, misc>>

NextSample == SampleStart \/ SampleKeep \/ SampleSelect \/ SampleReturn \/ SampleAgain

SpecSample == InitSample /\ [][NextSample]_vars

(***************************************************************************)
(* Claims about sample_table_data (checked under SpecSample).              *)
(***************************************************************************)

\* C14: two calls of sample_table_data with the same examples, the same
\* n_rows and the same seed other than None select the same row indices in
\* the same order for every example, and every example whose table has at
\* most n_rows rows is returned as the very same Example object at the same
\* position of the output list.
C14_SameSeedSameSample ==
    (sample.pc = "done" /\ ~sample.seed.none)
        => /\ sample.results[1].ok = sample.results[2].ok
           /\ sample.results[1].picked = sample.results[2].picked
           /\ \A c \in 1..2 :
                sample.results[c].ok
                    => /\ Len(sample.results[c].new_exs) = Len(sample.examples)
                       /\ \A i \in 1..Len(sample.examples) :
                            FullTableNRows(sample.examples[i].table) <= sample.n_rows
                                => /\ sample.results[c].new_exs[i].oid = sample.examples[i].oid
                                   /\ sample.results[c].new_exs[i] = sample.examples[i]

\* Two seeded calls that sampled two rows of one table and returned the
\* other example as it was.
C14_Witness ==
    /\ sample.pc = "done"
    /\ ~sample.seed.none
    /\ sample.results[2].ok
    /\ \E i, j \in 1..Len(sample.examples) :
        /\ sample.results[2].picked[i].sampled
        /\ Len(sample.results[2].picked[i].indices) = 2
        /\ ~sample.results[2].picked[j].sampled
        /\ sample.results[2].new_exs[j].oid = sample.examples[j].oid

\* C15: for every example whose table has more than n_rows rows (n_rows not
\* negative), sample_table_data passes select_rows exactly n_rows pairwise
\* distinct indices, each in 0..nrows-1, and the new example keeps the id
\* and the semantic models; the output list has the length and the order
\* of the input.
C15_SampleWithoutReplacement ==
    (sample.pc \in {"loop", "return", "done"} /\ sample.n_rows >= 0)
        => /\ \A i \in 1..Len(sample.picked) :
                LET ex == sample.examples[i]
                    nrows == FullTableNRows(ex.table)
                    indices == sample.picked[i].indices
                IN  /\ sample.picked[i].sampled <=> nrows > sample.n_rows
                    /\ sample.picked[i].sampled
                        => /\ Len(indices) = sample.n_rows
                           /\ \A a, b \in 1..Len(indices) : indices[a] = indices[b] => a = b
                           /\ \A a \in 1..Len(indices) : indices[a] \in 0..(nrows - 1)
           /\ \A i \in 1..Len(sample.new_exs) :
                LET ex == sample.examples[i]
                    new == sample.new_exs[i]
                IN  /\ new.id = ex.id
                    /\ new.sms = ex.sms
                    /\ sample.picked[i].sampled
                        => /\ new.oid # ex.oid
                           /\ new.table.table.columns[1].values =
                                [k \in 1..sample.n_rows |->
                                    ex.table.table.columns[1].values[sample.picked[i].indices[k] + 1]]
           /\ \A c \in 1..Len(sample.results) :
                /\ sample.results[c].ok
                /\ Len(sample.results[c].new_exs) = Len(sample.examples)

\* A call that sampled two of the three rows of a table.
C15_Witness ==
    /\ sample.pc = "done"
    /\ sample.n_rows = 2
    /\ \E i \in 1..Len(sample.examples) :
        /\ FullTableNRows(sample.examples[i].table) = 3
        /\ sample.results[1].picked[i].sampled
        /\ FullTableNRows(sample.results[1].new_exs[i].table) = 2

(***************************************************************************)
(* precision_recall_f1 (sm/evaluation/precision_recall_f1.py).             *)
(* A float is kept as the exact fraction it stands for, in lowest terms.   *)
(***************************************************************************)

MaxPrfLen == 2          \* examples given to precision_recall_f1

Labels == {"A", "B"}

RECURSIVE Gcd(_, _)
Gcd(a, b) == IF b = 0 THEN a ELSE Gcd(b, a % b)

\* n / d for n >= 0, d > 0.
Float(n, d) == [num |-> n \div Gcd(n, d), den |-> d \div Gcd(n, d)]

Float0 == Float(0, 1)
Float1 == Float(1, 1)

FloatMul(x, y) == Float(x.num * y.num, x.den * y.den)
FloatAdd(x, y) == Float(x.num * y.den + y.num * x.den, x.den * y.den)
FloatDiv(x, y) == Float(x.num * y.den, x.den * y.num)
FloatLess(x, y) == x.num * y.den < y.num * x.den
FloatLeq(x, y) == x.num * y.den <= y.num * x.den

PrecisionRecallF1(precision, recall, f1) ==
    [precision |-> precision, recall |-> recall, f1 |-> f1]

\* ScoringFn().get_match_score: exact matching.
GetMatchScore(ypred, ytrue) == IF ypred = ytrue THEN Float1 ELSE Float0

MinMatchScore(ypred, ytrues) ==
    LET scores == {GetMatchScore(ypred, y) : y \in ytrues}
    IN  CHOOSE s \in scores : \A o \in scores : FloatLeq(s, o)

\* max(scoring_fn.get_match_score(yipred, yitrue) for yitrue in ytrue[i])
MaxMatchScore(ypred, ytrues) ==
    LET scores == {GetMatchScore(ypred, y) : y \in ytrues}
    IN  CHOOSE s \in scores : \A o \in scores : FloatLeq(o, s)

\* The arguments: ytrue is a list of labels or None ("labels"), or a list
\* of sets of labels ("sets").
PrfLabelArgs ==
    {[form |-> "labels", ytrue |-> yt, ypreds |-> yp] :
        yt \in SeqsUpTo(Labels \cup {None}, MaxPrfLen),
        yp \in SeqsUpTo(Labels \cup {None}, MaxPrfLen)}

PrfSetArgs ==
    {[form |-> "sets", ytrue |-> yt, ypreds |-> yp] :
        yt \in SeqsUpTo(SUBSET Labels, MaxPrfLen),
        yp \in SeqsUpTo(Labels \cup {None}, MaxPrfLen)}

PrfStart(arg) ==
    [pc |-> "start", arg |-> arg, ytrue |-> <<>>, i |-> 0,
     n_correct |-> 0, n_predictions |-> 0, n_labels |-> 0, result |-> None]

\* isinstance(ytrue[0], (set, list, tuple))
IsSetOfLabels(arg) == arg.form = "sets"

\* [{y} if y is not None else set() for y in ytrue], or ytrue as it is.
ToLabelSets(arg) ==
    IF ~IsSetOfLabels(arg)
    THEN [i \in 1..Len(arg.ytrue) |->
            IF arg.ytrue[i] # None THEN {arg.ytrue[i]} ELSE {}]
    ELSE arg.ytrue

AssertSkipped(yipred) == TRUE

\* assert yipred is not None
AssertHolds(yipred) == yipred # None

InitPrf ==
    /\ \/ \E arg \in PrfLabelArgs : prf = PrfStart(arg)
       \/ \E arg \in PrfSetArgs : prf = PrfStart(arg)
    /\ fsid = [pc |-> "idle"]
    /\ sample = [pc |-> "idle"]
    /\ tr = [pc |-> "idle"]
    /\ DatasetIdle
    /\ MiscIdle
    /\ heap = 1

\* if len(ytrue) == 0: return PrecisionRecallF1(0.0, 0.0, 0.0)
PrfEmpty ==
    /\ prf.pc = "start"
    /\ Len(prf.arg.ytrue) = 0
    /\ prf' = [prf EXCEPT !.pc = "done",
                          !.result = Ok(PrecisionRecallF1(Float0, Float0, Float0))]
    /\ UNCHANGED <<tableVars, heap, loadVars, save, fsid, sample, tr, misc>>

\* The label sets and the counts n_correct, n_predictions, n_labels.
PrfCount ==
    /\ prf.pc = "start"
    /\ Len(prf.arg.ytrue) # 0
    /\ LET ytrue == ToLabelSets(prf.arg)
       IN  prf' = [prf EXCEPT
                !.pc = "loop", !.ytrue = ytrue, !.i = 0, !.n_correct = 0,
                !.n_predictions =
                    Cardinality({k \in 1..Len(prf.arg.ypreds) : prf.arg.ypreds[k] # None}),
                !.n_labels =
                    Cardinality({k \in 1..Len(ytrue) : Cardinality(ytrue[k]) > 0})]
    /\ UNCHANGED <<tableVars, heap, loadVars, save, fsid, sample, tr, misc>>

\* yipred = ypreds[i] where ypreds has no i-th element.
PrfIndexError ==
    /\ prf.pc = "loop"
    /\ prf.i < Len(prf.ytrue)
    /\ prf.i >= Len(prf.arg.ypreds)
    /\ prf' = [prf EXCEPT !.pc = "done",
                          !.result = Raise("IndexError", None)]
    /\ UNCHANGED <<tableVars, heap, loadVars, save, fsid, sample, tr, misc>>

\* One pass of the loop for an example with labels and a prediction.
PrfScore ==
    /\ prf.pc = "loop"
    /\ prf.i < Len(prf.ytrue)
    /\ prf.i < Len(prf.arg.ypreds)
    /\ LET yipred == prf.arg.ypreds[prf.i + 1]
           ytruei == prf.ytrue[prf.i + 1]
       IN  /\ Cardinality(ytruei) > 0 /\ yipred # None
           /\ LET score == MaxMatchScore(yipred, ytruei)
              IN  prf' = [prf EXCEPT
                        !.i = prf.i + 1,
                        !.n_correct = IF FloatLess(Float0, score)
                                      THEN prf.n_correct + 1
                                      ELSE prf.n_correct]
    /\ UNCHANGED <<tableVars, heap, loadVars, save, fsid, sample, tr, misc>>

\* One pass of the loop for any other example: the assertion.
PrfAssert ==
    /\ prf.pc = "loop"
    /\ prf.i < Len(prf.ytrue)
    /\ prf.i < Len(prf.arg.ypreds)
    /\ LET yipred == prf.arg.ypreds[prf.i + 1]
           ytruei == prf.ytrue[prf.i + 1]
       IN  /\ ~(Cardinality(ytruei) > 0 /\ yipred # None)
           /\ prf' = IF AssertHolds(yipred)
                     THEN [prf EXCEPT !.i = prf.i + 1]
                     ELSE [prf EXCEPT !.pc = "done",
                                      !.result = Raise("AssertionError", None)]
    /\ UNCHANGED <<tableVars, heap, loadVars, save, fsid, sample, tr, misc>>

\* precision, recall and f1 from the counts.
PrfReturn ==
    /\ prf.pc = "loop"
    /\ prf.i >= Len(prf.ytrue)
    /\ LET precision == IF prf.n_predictions > 0
                        THEN Float(prf.n_correct, prf.n_predictions)
                        ELSE Float1
           recall == IF prf.n_labels > 0
                     THEN Float(prf.n_correct, prf.n_labels)
                     ELSE Float1
           f1 == IF FloatLess(Float0, FloatAdd(precision, recall))
                 THEN FloatDiv(FloatMul(FloatMul(Float(2, 1), precision), recall),
                               FloatAdd(precision, recall))
                 ELSE Float0
       IN  prf' = [prf EXCEPT !.pc = "done",
                              !.result = Ok(PrecisionRecallF1(precision, recall, f1))]
    /\ UNCHANGED <<tableVars, heap, loadVars, save, fsid, sample, tr, misc>>

NextPrf == PrfEmpty \/ PrfCount \/ PrfIndexError \/ PrfScore \/ PrfAssert \/ PrfReturn

SpecPrf == InitPrf /\ [][NextPrf]_vars

\* The true-label set of the k-th example as the caller gave it: a None
\* label is the empty set.
TrueLabelSet(k) ==
    IF prf.arg.form = "labels"
    THEN IF prf.arg.ytrue[k] = None THEN {} ELSE {prf.arg.ytrue[k]}
    ELSE prf.arg.ytrue[k]

Predicted == {k \in 1..Len(prf.arg.ypreds) : prf.arg.ypreds[k] # None}
Labelled == {k \in 1..Len(prf.arg.ytrue) : TrueLabelSet(k) # {}}
Correct ==
    {k \in Labelled \cap Predicted :
        \E y \in TrueLabelSet(k) : FloatLess(Float0, GetMatchScore(prf.arg.ypreds[k], y))}

\* C16: for a non-empty ytrue and ypreds of the same length, whenever
\* precision_recall_f1 returns, precision = n_correct/n_predictions (1.0
\* when n_predictions = 0), recall = n_correct/n_labels (1.0 when n_labels
\* = 0) and f1 = 2pr/(p+r) (0.0 when p+r = 0), where n_predictions counts
\* the predictions that are not None, n_labels the non-empty true-label
\* sets and n_correct the examples with a non-empty true-label set, a
\* prediction and a maximum match score above 0; n_correct is at most
\* min(n_predictions, n_labels) and the three values lie in [0, 1].
C16_ScoresFromCounts ==
    (/\ prf.pc = "done"
     /\ prf.result.ok
     /\ Len(prf.arg.ytrue) > 0
     /\ Len(prf.arg.ypreds) = Len(prf.arg.ytrue))
        => LET n_correct == Cardinality(Correct)
               n_predictions == Cardinality(Predicted)
               n_labels == Cardinality(Labelled)
               p == IF n_predictions = 0 THEN Float1 ELSE Float(n_correct, n_predictions)
               r == IF n_labels = 0 THEN Float1 ELSE Float(n_correct, n_labels)
               f1 == IF FloatAdd(p, r) = Float0
                     THEN Float0
                     ELSE FloatDiv(FloatMul(Float(2, 1), FloatMul(p, r)), FloatAdd(p, r))
               res == prf.result.val
           IN  /\ res.precision = p
               /\ res.recall = r
               /\ res.f1 = f1
               /\ n_correct <= n_predictions
               /\ n_correct <= n_labels
               /\ \A v \in {res.precision, res.recall, res.f1} :
                    FloatLeq(Float0, v) /\ FloatLeq(v, Float1)

\* A call that returned precision 1/2 and recall 1: two predictions, one
\* of them for an example with two acceptable labels, the other for an
\* example without labels.
C16_Witness ==
    /\ prf.pc = "done"
    /\ prf.result.ok
    /\ Len(prf.arg.ytrue) = 2
    /\ Len(prf.arg.ypreds) = 2
    /\ \E k \in 1..2 : Cardinality(prf.ytrue[k]) = 2
    /\ prf.result.val.precision = Float(1, 2)
    /\ prf.result.val.recall = Float1
    /\ prf.result.val.f1 = Float(2, 3)

\* C17: precision_recall_f1 fails with an assertion error, and returns no
\* scores, whenever some example has an empty true-label set (a None label
\* or an empty set) together with a None prediction.
C17_NoLabelNoPredictionAsserts ==
    (/\ prf.pc = "done"
     /\ \E k \in 1..Len(prf.arg.ytrue) :
            /\ k <= Len(prf.arg.ypreds)
            /\ TrueLabelSet(k) = {}
            /\ prf.arg.ypreds[k] = None)
        => /\ ~prf.result.ok
           /\ prf.result.err = "AssertionError"

\* A failed call whose second example has neither a label nor a
\* prediction, after a first example that was scored.
C17_Witness ==
    /\ prf.pc = "done"
    /\ ~prf.result.ok
    /\ prf.result.err = "AssertionError"
    /\ Len(prf.arg.ytrue) = 2
    /\ Len(prf.arg.ypreds) = 2
    /\ TrueLabelSet(1) # {}
    /\ prf.arg.ypreds[1] # None
    /\ TrueLabelSet(2) = {}
    /\ prf.arg.ypreds[2] = None

(***************************************************************************)
(* SemModelTransformation.replace_class_nodes_by_subject_columns           *)
(* (sm/evaluation/transformation.py), called twice on one model, the       *)
(* second time with the nodes iterated in another order.                   *)
(***************************************************************************)

MaxEdges == 3           \* edges of the semantic model

ClassNodes == {"c1", "c2"}
DataNodes == {"d1", "d2"}
ModelNodes == ClassNodes \cup DataNodes

RDFS_LABEL == "rdfs:label"
P_OTHER == "p:other"
IdProps == {RDFS_LABEL}

\* An edge of the model: an object (id) with a source, a target and the
\* URI of its property.
Edge(id, source, target, abs_uri) ==
    [id |-> id, source |-> source, target |-> target, abs_uri |-> abs_uri]

SemanticModel(nodes, edges) == [nodes |-> nodes, edges |-> edges]

ModelEdges ==
    {Edge(<<s, t, u>>, s, t, u) :
        s \in ClassNodes, t \in ModelNodes, u \in {RDFS_LABEL, P_OTHER}}

Models ==
    {SemanticModel(ModelNodes, edges) :
        edges \in {es \in SUBSET ModelEdges : Cardinality(es) <= MaxEdges}}

\* The orders in which sm.iter_nodes() yields the nodes.
IterOrders ==
    {<<a, "d1", b, "d2">> : a \in ClassNodes, b \in ClassNodes} \ 
    {<<a, "d1", a, "d2">> : a \in ClassNodes}

IsClassNode(u) == u \in ClassNodes
IncomingEdges(sm, u) == {e \in sm.edges : e.target = u}
OutgoingEdges(sm, u) == {e \in sm.edges : e.source = u}
RemoveEdge(sm, edge) == [sm EXCEPT !.edges = {e \in sm.edges : e.id # edge.id}]
AddEdge(sm, edge) == [sm EXCEPT !.edges = sm.edges \cup {edge}]
IncidentEdges(sm, u) == {e \in sm.edges : e.source = u \/ e.target = u}
RemoveNode(sm, u) ==
    SemanticModel(sm.nodes \ {u}, sm.edges \ IncidentEdges(sm, u))

\* id_edges = [outedge for outedge in outedges if outedge.abs_uri in id_props]
IdEdges(outedges, id_props) == {e \in outedges : e.abs_uri \in id_props}

TooManyIdEdgesAboveTwo(id_edges) == Cardinality(id_edges) > 2

\* if len(id_edges) > 1: raise
TooManyIdEdges(id_edges) == Cardinality(id_edges) > 1

CurrentEdge(sm, edge) == CHOOSE e \in sm.edges : e.id = edge.id

\* for ... in inedges / outedges: remove the edge, set one of its ends,
\* add it again.  `ends` is "target" for the incoming edges and "source"
\* for the outgoing ones.
RECURSIVE RewireSkipped(_, _, _, _)
RewireSkipped(sm, edges, ends, target) ==
    IF ends = "target" THEN sm
    ELSE IF edges = {} THEN sm
    ELSE LET edge == CHOOSE e \in edges : TRUE
             cur == CurrentEdge(sm, edge)
         IN  RewireSkipped(AddEdge(RemoveEdge(sm, cur), [cur EXCEPT !.source = target]),
                           edges \ {edge}, ends, target)

RECURSIVE Rewire(_, _, _, _)
Rewire(sm, edges, ends, target) ==
    IF edges = {} THEN sm
    ELSE LET edge == CHOOSE e \in edges : TRUE
             cur == CurrentEdge(sm, edge)
             new == IF ends = "target"
                    THEN [cur EXCEPT !.target = target]
                    ELSE [cur EXCEPT !.source = target]
         IN  Rewire(AddEdge(RemoveEdge(sm, cur), new), edges \ {edge}, ends, target)

\* Lines 22-33 for a class node with the identifier edge id_edge.
ReplaceClassNode(sm, cnode, id_edge) ==
    LET inedges == IncomingEdges(sm, cnode)
        outedges == OutgoingEdges(sm, cnode)
        sm1 == Rewire(sm, inedges, "target", CurrentEdge(sm, id_edge).target)
        sm2 == Rewire(sm1, outedges, "source", CurrentEdge(sm1, id_edge).target)
    IN  RemoveEdge(sm2, CurrentEdge(sm2, id_edge))

TrCall(model, orders, call, results) ==
    [pc |-> "loop", model |-> model, orders |-> orders, call |-> call,
     i |-> 1, j |-> 1, sm |-> model, rm_nodes |-> <<>>, dropped |-> {},
     results |-> results]

TrResult(ok, err, t) ==
    [ok |-> ok, err |-> err, sm |-> t.sm, rm_nodes |-> t.rm_nodes,
     dropped |-> t.dropped]

InitTr ==
    /\ \E model \in Models, o1 \in IterOrders, o2 \in IterOrders :
          tr = TrCall(model, <<o1, o2>>, 1, <<>>)
    /\ fsid = [pc |-> "idle"]
    /\ sample = [pc |-> "idle"]
    /\ prf = [pc |-> "idle"]
    /\ DatasetIdle
    /\ MiscIdle
    /\ heap = 1

TrNode == tr.orders[tr.call][tr.i]

\* A node that is not a class node, or a class node without identifier
\* edge: continue.
TrSkip ==
    /\ tr.pc = "loop"
    /\ tr.i <= Len(tr.orders[tr.call])
    /\ \/ ~IsClassNode(TrNode)
       \/ Cardinality(IdEdges(OutgoingEdges(tr.sm, TrNode), IdProps)) = 0
    /\ tr' = [tr EXCEPT !.i = tr.i + 1]
    /\ UNCHANGED <<tableVars, heap, loadVars, save, fsid, sample, prf, misc>>

\* A class node with more than one identifier edge: raise.
TrRaise ==
    /\ tr.pc = "loop"
    /\ tr.i <= Len(tr.orders[tr.call])
    /\ IsClassNode(TrNode)
    /\ LET id_edges == IdEdges(OutgoingEdges(tr.sm, TrNode), IdProps)
       IN  /\ Cardinality(id_edges) # 0
           /\ TooManyIdEdges(id_edges)
    /\ tr' = [tr EXCEPT !.pc = "called",
                        !.results = Append(tr.results, TrResult(FALSE, "Exception", tr))]
    /\ UNCHANGED <<tableVars, heap, loadVars, save, fsid, sample, prf, misc>>

\* A class node with its identifier edge id_edges[0]: rewire its edges,
\* remove the identifier edge, note the node for removal.
TrReplace ==
    /\ tr.pc = "loop"
    /\ tr.i <= Len(tr.orders[tr.call])
    /\ IsClassNode(TrNode)
    /\ LET id_edges == IdEdges(OutgoingEdges(tr.sm, TrNode), IdProps)
       IN  /\ Cardinality(id_edges) # 0
           /\ ~TooManyIdEdges(id_edges)
           /\ \E id_edge \in id_edges :
                tr' = [tr EXCEPT !.i = tr.i + 1,
                                 !.sm = ReplaceClassNode(tr.sm, TrNode, id_edge),
                                 !.rm_nodes = Append(tr.rm_nodes, TrNode)]
    /\ UNCHANGED <<tableVars, heap, loadVars, save, fsid, sample, prf, misc>>

\* for uid in rm_nodes: sm.remove_node(uid)
TrRemoveNode ==
    /\ tr.pc = "loop"
    /\ tr.i > Len(tr.orders[tr.call])
    /\ tr.j <= Len(tr.rm_nodes)
    /\ LET uid == tr.rm_nodes[tr.j]
       IN  tr' = [tr EXCEPT !.j = tr.j + 1,
                            !.sm = RemoveNode(tr.sm, uid),
                            !.dropped = tr.dropped \cup IncidentEdges(tr.sm, uid)]
    /\ UNCHANGED <<tableVars, heap, loadVars, save, fsid, sample, prf, misc>>

\* The call returns.
TrReturn ==
    /\ tr.pc = "loop"
    /\ tr.i > Len(tr.orders[tr.call])
    /\ tr.j > Len(tr.rm_nodes)
    /\ tr' = [tr EXCEPT !.pc = "called",
                        !.results = Append(tr.results, TrResult(TRUE, None, tr))]
    /\ UNCHANGED <<tableVars, heap, loadVars, save, fsid, sample, prf, misc>>

\* The second call, on the same model with the nodes in the other order.
TrAgain ==
    /\ tr.pc = "called"
    /\ tr.call = 1
    /\ tr' = TrCall(tr.model, tr.orders, 2, tr.results)
    /\ UNCHANGED <<tableVars, heap, loadVars, save, fsid, sample, prf, misc>>

NextTr == TrSkip \/ TrRaise \/ TrReplace \/ TrRemoveNode \/ TrReturn \/ TrAgain

SpecTr == InitTr /\ [][NextTr]_vars

\* The identifier edges a node has in the model given to the call.
ModelIdEdges(n) == IdEdges(OutgoingEdges(tr.model, n), IdProps)

\* The class nodes with exactly one identifier edge.
Collapsible == {n \in ClassNodes : Cardinality(ModelIdEdges(n)) = 1}

\* C18: replace_class_nodes_by_subject_columns raises whenever some class
\* node of the model has two or more outgoing edges whose property URI is
\* in id_props; it never picks one of them and completes normally.
C18_TwoIdEdgesRaise ==
    (\E n \in ClassNodes : Cardinality(ModelIdEdges(n)) >= 2)
        => \A c \in 1..Len(tr.results) :
              /\ ~tr.results[c].ok
              /\ tr.results[c].err = "Exception"

\* A call that raised at the class node visited second, after it had
\* rewired the edges of the one visited first.
C18_Witness ==
    /\ Len(tr.results) >= 1
    /\ ~tr.results[1].ok
    /\ tr.results[1].rm_nodes # <<>>
    /\ \E n \in ClassNodes : Cardinality(ModelIdEdges(n)) = 2

\* The node that stands for n once the collapsible class nodes are
\* replaced by the targets of their identifier edges.
RECURSIVE Replacement(_, _)
Replacement(n, fuel) ==
    IF n \notin Collapsible \/ fuel = 0 THEN n
    ELSE Replacement((CHOOSE e \in ModelIdEdges(n) : TRUE).target, fuel - 1)

\* C19: after replace_class_nodes_by_subject_columns completes normally,
\* every class node that had exactly one identifier edge is gone and every
\* other node is still present; the identifier edge of a collapsed class
\* node is gone; every other edge that was incident to a collapsed class
\* node still exists with the same property URI, attached to the
\* identifier edge's target (followed through collapsed targets) in the
\* class node's place; when a collapsed class node is deleted no edge is
\* incident to it, so the number of edges drops by exactly the number of
\* collapsed class nodes.
C19_ClassNodesCollapsed ==
    \A c \in 1..Len(tr.results) :
        LET r == tr.results[c]
            id_edges == UNION {ModelIdEdges(n) : n \in Collapsible}
        IN  r.ok =>
              /\ r.sm.nodes = tr.model.nodes \ Collapsible
              /\ \A e \in id_edges : \A f \in r.sm.edges : f.id # e.id
              /\ \A e \in tr.model.edges \ id_edges :
                    (e.source \in Collapsible \/ e.target \in Collapsible)
                        => \E f \in r.sm.edges :
                              /\ f.id = e.id
                              /\ f.abs_uri = e.abs_uri
                              /\ f.source = Replacement(e.source, Cardinality(ClassNodes))
                              /\ f.target = Replacement(e.target, Cardinality(ClassNodes))
              /\ r.dropped = {}
              /\ Cardinality(r.sm.edges) =
                    Cardinality(tr.model.edges) - Cardinality(Collapsible)

\* The number of edges of each source, target and property.
EdgeBag(edges) ==
    [k \in ModelNodes \X ModelNodes \X {RDFS_LABEL, P_OTHER} |->
        Cardinality({e \in edges : <<e.source, e.target, e.abs_uri>> = k})]

\* C20: for a fixed model and id_props, whether the call raises and, when
\* it completes, the graph it produces (the node set and the multiset of
\* source/target/property edges) are the same for every order in which
\* the class nodes are visited, also when one collapsible class node is
\* the identifier target or a neighbour of another.
C20_OrderIndependent ==
    Len(tr.results) = 2
        => /\ tr.results[1].ok = tr.results[2].ok
           /\ tr.results[1].ok
                => /\ tr.results[1].sm.nodes = tr.results[2].sm.nodes
                   /\ EdgeBag(tr.results[1].sm.edges) = EdgeBag(tr.results[2].sm.edges)

\* Two completed calls in different orders on a model whose two class
\* nodes are both collapsible, one being the identifier target of the
\* other, with a further edge that was rewired.
C20_Witness ==
    /\ Len(tr.results) = 2
    /\ tr.results[1].ok
    /\ tr.results[2].ok
    /\ tr.orders[1] # tr.orders[2]
    /\ Collapsible = ClassNodes
    /\ \E n \in ClassNodes : \E e \in ModelIdEdges(n) : e.target \in ClassNodes \ {n}
    /\ tr.results[2].sm.edges # {}

(***************************************************************************)
(* SemModelTransformation.remove_isolated_nodes                            *)
(* (sm/evaluation/transformation.py), called on a model and then again on  *)
(* the model it left.                                                      *)
(***************************************************************************)

\* sm.degree(uid): the incoming plus the outgoing edges.
Degree(sm, u) == Cardinality(IncomingEdges(sm, u)) + Cardinality(OutgoingEdges(sm, u))

IsIsolatedWithoutOutgoing(sm, u) == Cardinality(OutgoingEdges(sm, u)) = 0

\* if sm.degree(n.id) == 0
IsIsolated(sm, u) == Degree(sm, u) = 0

\* sm.iter_nodes(): the nodes of the model, in the order `order`.
IterNodes(sm, order) == SelectSeq(order, LAMBDA u : u \in sm.nodes)

IsoCall(model, order, call, results) ==
    [pc |-> "isolated", model |-> model, order |-> order, call |-> call,
     nodes |-> IterNodes(model, order), i |-> 1, j |-> 1, sm |-> model,
     rm_nodes |-> <<>>, results |-> results]

InitIso ==
    /\ \E model \in Models, order \in IterOrders :
          tr = IsoCall(model, order, 1, <<>>)
    /\ fsid = [pc |-> "idle"]
    /\ sample = [pc |-> "idle"]
    /\ prf = [pc |-> "idle"]
    /\ DatasetIdle
    /\ MiscIdle
    /\ heap = 1

\* for n in sm.iter_nodes(): if sm.degree(n.id) == 0: rm_nodes.append(n.id)
IsoVisit ==
    /\ tr.pc = "isolated"
    /\ tr.i <= Len(tr.nodes)
    /\ tr' = [tr EXCEPT !.i = tr.i + 1,
                        !.rm_nodes = IF IsIsolated(tr.sm, tr.nodes[tr.i])
                                     THEN Append(tr.rm_nodes, tr.nodes[tr.i])
                                     ELSE tr.rm_nodes]
    /\ UNCHANGED <<tableVars, heap, loadVars, save, fsid, sample, prf, misc>>

\* for uid in rm_nodes: sm.remove_node(uid)
IsoRemoveNode ==
    /\ tr.pc = "isolated"
    /\ tr.i > Len(tr.nodes)
    /\ tr.j <= Len(tr.rm_nodes)
    /\ tr' = [tr EXCEPT !.j = tr.j + 1,
                        !.sm = RemoveNode(tr.sm, tr.rm_nodes[tr.j])]
    /\ UNCHANGED <<tableVars, heap, loadVars, save, fsid, sample, prf, misc>>

\* The call returns.
IsoReturn ==
    /\ tr.pc = "isolated"
    /\ tr.i > Len(tr.nodes)
    /\ tr.j > Len(tr.rm_nodes)
    /\ tr' = [tr EXCEPT !.pc = "returned", !.results = Append(tr.results, tr.sm)]
    /\ UNCHANGED <<tableVars, heap, loadVars, save, fsid, sample, prf, misc>>

\* The second call, on the model the first one left.
IsoAgain ==
    /\ tr.pc = "returned"
    /\ tr.call = 1
    /\ tr' = [IsoCall(tr.sm, tr.order, 2, tr.results) EXCEPT !.model = tr.model]
    /\ UNCHANGED <<tableVars, heap, loadVars, save, fsid, sample, prf, misc>>

NextIso == IsoVisit \/ IsoRemoveNode \/ IsoReturn \/ IsoAgain

SpecIso == InitIso /\ [][NextIso]_vars

\* C21: after remove_isolated_nodes(model) no remaining node has total
\* degree 0, every node that had a degree above 0 before the call (a node
\* whose only edge is a self-loop included) is still present, and no edge
\* was added or removed; a second call changes nothing.
C21_IsolatedNodesRemoved ==
    /\ Len(tr.results) >= 1
        => LET after == tr.results[1]
           IN  /\ \A u \in after.nodes : Degree(after, u) > 0
               /\ \A u \in tr.model.nodes : Degree(tr.model, u) > 0 => u \in after.nodes
               /\ after.nodes \subseteq tr.model.nodes
               /\ after.edges = tr.model.edges
    /\ Len(tr.results) = 2 => tr.results[2] = tr.results[1]

\* Two calls on a model with an isolated node, a node that has only
\* incoming edges and a class node whose only edge is a self-loop.
C21_Witness ==
    /\ Len(tr.results) = 2
    /\ \E u \in tr.model.nodes : u \notin tr.results[1].nodes
    /\ \E u \in tr.results[1].nodes :
          /\ OutgoingEdges(tr.model, u) = {}
          /\ IncomingEdges(tr.model, u) # {}
    /\ \E u \in tr.results[1].nodes :
          /\ IncidentEdges(tr.model, u) # {}
          /\ \A e \in IncidentEdges(tr.model, u) : e.source = u /\ e.target = u

(***************************************************************************)
(* parallel_map (sm/misc/funcs.py).  The pool runs the tasks in any order; *)
(* imap_unordered hands their results over in the order they complete.     *)
(***************************************************************************)

MaxInputs == 3          \* inputs given to parallel_map

\* A value of Python that may be None.
PyNone == [none |-> TRUE, value |-> <<>>]
PyValue(v) == [none |-> FALSE, value |-> v]

\* fn called with the positional arguments args: it needs fn.params of
\* them, and raises on the argument "bad".
CallFn(fn, args) ==
    IF Len(args) # fn.params THEN Raise("TypeError", None)
    ELSE IF "bad" \in Range(args) THEN Raise("ValueError", None)
    ELSE Ok(<<"f">> \o args)

\* ParallelMapFnWrapper.__init__: spread_fn_args.
SpreadFnArgs(fn) == fn.params > 1

\* ParallelMapFnWrapper.run
WrapperRun(fn, ignore_error, args) ==
    LET idx == args[1]
        r == IF SpreadFnArgs(fn) THEN CallFn(fn, args[2]) ELSE CallFn(fn, <<args[2]>>)
    IN  IF r.ok THEN Ok(<<idx, PyValue(r.val)>>)
        ELSE IF ignore_error THEN Ok(<<idx, PyNone>>)
        ELSE Raise(r.err, None)

\* enumerate(inputs)
Enumerate(inputs) == [k \in 1..Len(inputs) |-> <<k - 1, inputs[k]>>]

SortUnsorted(results) == results

\* results.sort(key=itemgetter(0)), for results of pairwise distinct keys.
SortByIndex(results) ==
    [k \in 1..Len(results) |->
        CHOOSE r \in Range(results) :
            Cardinality({o \in Range(results) : o[1] < r[1]}) = k - 1]

PmModes == {"process", "thread", "sequential"}

PmCall(fn, inputs, mode, ignore_error) ==
    [pc |-> "parallel_map", fn |-> fn, inputs |-> inputs,
     is_parallel |-> mode # "sequential", use_threadpool |-> mode = "thread",
     ignore_error |-> ignore_error, i |-> 1, list |-> <<>>,
     pending |-> {}, completed |-> <<>>, results |-> <<>>, result |-> None]

InitPm ==
    /\ \E mode \in PmModes, ignore_error \in BOOLEAN :
          \/ \E inputs \in SeqsUpTo({"a", "b", "bad"}, MaxInputs) :
                misc = PmCall([params |-> 1], inputs, mode, ignore_error)
          \/ \E inputs \in SeqsUpTo({<<"a", "b">>, <<"b", "a">>, <<"bad", "b">>}, MaxInputs) :
                misc = PmCall([params |-> 2], inputs, mode, ignore_error)
    /\ fsid = [pc |-> "idle"]
    /\ sample = [pc |-> "idle"]
    /\ prf = [pc |-> "idle"]
    /\ tr = [pc |-> "idle"]
    /\ DatasetIdle
    /\ heap = 1

\* not is_parallel: list(fn(item) for item in inputs), one item.
PmSequentialItem ==
    /\ misc.pc = "parallel_map"
    /\ ~misc.is_parallel
    /\ misc.i <= Len(misc.inputs)
    /\ LET r == CallFn(misc.fn, <<misc.inputs[misc.i]>>)
       IN  misc' = IF r.ok
                   THEN [misc EXCEPT !.i = misc.i + 1,
                                     !.list = Append(misc.list, PyValue(r.val))]
                   ELSE [misc EXCEPT !.pc = "done", !.result = Raise(r.err, None)]
    /\ UNCHANGED <<tableVars, heap, loadVars, save, fsid, sample, prf, tr>>

\* not is_parallel: return list(iter).
PmSequentialReturn ==
    /\ misc.pc = "parallel_map"
    /\ ~misc.is_parallel
    /\ misc.i > Len(misc.inputs)
    /\ misc' = [misc EXCEPT !.pc = "done", !.result = Ok(misc.list)]
    /\ UNCHANGED <<tableVars, heap, loadVars, save, fsid, sample, prf, tr>>

\* The pool is entered and pool.imap_unordered is given the tasks.
PmSubmit ==
    /\ misc.pc = "parallel_map"
    /\ misc.is_parallel
    /\ misc' = [misc EXCEPT !.pc = "pool", !.pending = Range(Enumerate(misc.inputs))]
    /\ UNCHANGED <<tableVars, heap, loadVars, save, fsid, sample, prf, tr>>

\* A worker completes one of the tasks; list(iter) takes its result, or
\* raises the exception the task raised.
PmComplete ==
    /\ misc.pc = "pool"
    /\ \E args \in misc.pending :
          LET r == WrapperRun(misc.fn, misc.ignore_error, args)
          IN  misc' = IF r.ok
                      THEN [misc EXCEPT !.pending = misc.pending \ {args},
                                        !.completed = Append(misc.completed, args[1]),
                                        !.results = Append(misc.results, r.val)]
                      ELSE [misc EXCEPT !.pc = "done", !.pending = {},
                                        !.result = Raise(r.err, None)]
    /\ UNCHANGED <<tableVars, heap, loadVars, save, fsid, sample, prf, tr>>

\* results.sort(key=itemgetter(0)); return [v for i, v in results]
PmReturn ==
    /\ misc.pc = "pool"
    /\ misc.pending = {}
    /\ LET results == SortByIndex(misc.results)
       IN  misc' = [misc EXCEPT !.pc = "done", !.results = results,
                                !.result = Ok([k \in 1..Len(results) |-> results[k][2]])]
    /\ UNCHANGED <<tableVars, heap, loadVars, save, fsid, sample, prf, tr>>

NextPm == PmSequentialItem \/ PmSequentialReturn \/ PmSubmit \/ PmComplete \/ PmReturn

SpecPm == InitPm /\ [][NextPm]_vars

\* What fn does with the k-th input.
FnOn(k) ==
    IF misc.is_parallel /\ misc.fn.params > 1
    THEN CallFn(misc.fn, misc.inputs[k])
    ELSE CallFn(misc.fn, <<misc.inputs[k]>>)

\* C22: parallel_map returns a list with one entry per input in which
\* entry i is the result for input i, for every order in which the pool
\* workers complete their tasks, in process-pool, thread-pool and
\* sequential mode.
C22_ResultsInInputOrder ==
    (misc.pc = "done" /\ misc.result.ok)
        => /\ Len(misc.result.val) = Len(misc.inputs)
           /\ \A k \in 1..Len(misc.inputs) :
                misc.result.val[k] =
                    IF FnOn(k).ok THEN PyValue(FnOn(k).val) ELSE PyNone

\* A pool call that returned three results whose tasks completed in
\* another order than the order of the inputs.
C22_Witness ==
    /\ misc.pc = "done"
    /\ misc.result.ok
    /\ misc.is_parallel
    /\ Len(misc.inputs) = 3
    /\ misc.completed = <<2, 0, 1>>
    /\ \E k \in 1..3 : misc.inputs[k] # misc.inputs[1]
    /\ \A k \in 1..3 : ~misc.result.val[k].none

\* C23: when fn raises on some input, parallel_map with ignore_error=False
\* raises in the caller and returns no list; with ignore_error=True it
\* does not raise, the entry of each failing input is None and the entries
\* of the other inputs are their normal results; in process-pool,
\* thread-pool and sequential mode alike.
C23_IgnoreErrorInEveryMode ==
    (misc.pc = "done" /\ \E k \in 1..Len(misc.inputs) : ~FnOn(k).ok)
        => IF misc.ignore_error
           THEN /\ misc.result.ok
                /\ Len(misc.result.val) = Len(misc.inputs)
                /\ \A k \in 1..Len(misc.inputs) :
                      misc.result.val[k] =
                          IF FnOn(k).ok THEN PyValue(FnOn(k).val) ELSE PyNone
           ELSE ~misc.result.ok

(***************************************************************************)
(* get_incremental_path and get_latest_version (sm/misc/funcs.py), called  *)
(* again and again on one path.                                            *)
(***************************************************************************)

MaxCalls == 101         \* calls of get_incremental_path

\* str(v) for v >= 0.
RECURSIVE Decimal(_)
Decimal(v) ==
    IF v < 10 THEN <<Digits[v + 1]>>
    ELSE Decimal(v \div 10) \o <<Digits[(v % 10) + 1]>>

\* f"{version:02d}"
FormatVersion(version) ==
    IF version < 10 THEN <<"0">> \o Decimal(version) ELSE Decimal(version)

\* glob.glob of f"{stem}{delimiter}*{suffix}" in the parent directory.
Glob(listing, prefix, suffix) ==
    {name \in listing :
        /\ Len(name) >= Len(prefix) + Len(suffix)
        /\ StartsWith(name, prefix)
        /\ EndsWith(name, suffix)}

\* re.match("[^0-9]*(\d+)[^0-9]*", name): the first run of digits.
FirstNumber(name) ==
    LET digits == {i \in 1..Len(name) : IsDigit(name[i])}
    IN  IF digits = {} THEN Raise("Exception: Invalid naming", 0)
        ELSE LET i == CHOOSE k \in digits : \A o \in digits : k <= o
                 j == CHOOSE k \in i..Len(name) :
                        /\ \A o \in i..k : IsDigit(name[o])
                        /\ (k = Len(name) \/ ~IsDigit(name[k + 1]))
             IN  Ok(DigitsValue(SubSeq(name, i, j)))

\* get_latest_version(pattern)
GetLatestVersion(listing, prefix, suffix) ==
    LET files == Glob(listing, prefix, suffix)
    IN  IF files = {} THEN Ok(0)
        ELSE FirstNumber(CHOOSE file \in files :
                            \A o \in files : o = file \/ LexLess(o, file))

IncPaths ==
    {[stem |-> stem, suffix |-> suffix] :
        stem \in {<<"d">>, <<"r", "2">>}, suffix \in {<<>>, JSON}}

InitInc ==
    /\ \E path \in IncPaths, listing \in {{}, {<<"x">>}} :
          misc = [pc |-> "get_incremental_path", path |-> path,
                  listing |-> listing, calls |-> <<>>]
    /\ fsid = [pc |-> "idle"]
    /\ sample = [pc |-> "idle"]
    /\ prf = [pc |-> "idle"]
    /\ tr = [pc |-> "idle"]
    /\ DatasetIdle
    /\ heap = 1

\* One call get_incremental_path(path), create_if_missing=True and no
\* delimiter_char given.
GetIncrementalPath ==
    /\ misc.pc = "get_incremental_path"
    /\ Len(misc.calls) < MaxCalls
    /\ LET path == misc.path
           delimiter_char == IF path.suffix = <<>> THEN <<"_">> ELSE <<".">>
           latest == GetLatestVersion(misc.listing, path.stem \o delimiter_char,
                                      path.suffix)
           version == latest.val + 1
           newpath == path.stem \o delimiter_char \o FormatVersion(version)
                        \o path.suffix
       IN  IF ~latest.ok
           THEN misc' = [misc EXCEPT !.pc = "raised",
                            !.calls = Append(misc.calls, Raise(latest.err, <<>>))]
           ELSE IF path.suffix = <<>> /\ newpath \in misc.listing
           THEN misc' = [misc EXCEPT !.pc = "raised",
                            !.calls = Append(misc.calls, Raise("FileExistsError", newpath))]
           ELSE misc' = [misc EXCEPT
                            !.listing = IF path.suffix = <<>>
                                        THEN misc.listing \cup {newpath}
                                        ELSE misc.listing,
                            !.calls = Append(misc.calls, Ok(newpath))]
    /\ UNCHANGED <<tableVars, heap, loadVars, save, fsid, sample, prf, tr>>

NextInc == GetIncrementalPath

SpecInc == InitInc /\ [][NextInc]_vars

\* C24: starting from a directory with no versioned sibling, repeated
\* calls get_incremental_path(path) with create_if_missing=True on a path
\* without suffix return pairwise distinct paths whose version numbers are
\* 1, 2, 3, ... in call order, for any number of calls, and never fail
\* because the returned path already exists.
C24_VersionsCountUp ==
    misc.pc \in {"get_incremental_path", "raised"} /\ misc.path.suffix = <<>>
        => \A k \in 1..Len(misc.calls) :
              /\ misc.calls[k].ok
              /\ misc.calls[k].val =
                    misc.path.stem \o <<"_">> \o FormatVersion(k)

(***************************************************************************)
(* Dataset.save into an empty directory, then Dataset.load of the same     *)
(* directory.                                                              *)
(***************************************************************************)

\* The table ids that are no URLs: the file names made of them are
\* spelled character by character, as the loader reads them.
PlainIds == {I_a, I_B, I_a_b, I_a_space_b, I_a_slash_b}

InitSaveLoad ==
    /\ \E call \in SaveCalls :
        /\ call.location = DS
        /\ call.fs = {}
        /\ \A i \in 1..Len(call.save.examples) :
              call.save.examples[i].table.table.table_id \in PlainIds
        /\ \A i, j \in 1..Len(call.save.examples) :
              call.save.examples[i].table.table.table_id =
                  call.save.examples[j].table.table.table_id => i = j
        /\ location = call.location
        /\ fs = call.fs
        /\ save = [call.save EXCEPT !.before = call.fs]
    /\ load = LoadIdle
    /\ ft = FullTable(ColumnBasedTable(0, <<>>, <<>>), EmptyContext, <<>>)
    /\ out = NoOut
    /\ heap = 1
    /\ EvalIdle

\* Dataset(location).load() once save has returned.
LoadSaved ==
    /\ save.pc = "done"
    /\ load.pc = "idle"
    /\ load' = LoadStart
    /\ UNCHANGED <<tableVars, heap, location, fs, save, evalVars>>

\* The saver writes no hidden file and no file without suffix, so the
\* loader never skips an entry here.
NextSaveLoad ==
    \/ SavePrepare \/ SaveExample \/ SaveBatch \/ SaveReturn
    \/ LoadSaved
    \/ LoadOpen \/ LoadTableFile \/ LoadPartZip \/ LoadClose

SpecSaveLoad == InitSaveLoad /\ [][NextSaveLoad]_vars

\* Two examples with the same id, table (id, columns), context, links and
\* semantic models.
SameExample(a, b) ==
    /\ a.id = b.id
    /\ a.sms = b.sms
    /\ a.table.table.table_id = b.table.table.table_id
    /\ a.table.table.columns = b.table.table.columns
    /\ a.table.context = b.table.context
    /\ a.table.links = b.table.links

\* C25: for examples with pairwise distinct table ids, Dataset.save into
\* an empty plain directory followed by Dataset.load of that directory
\* returns the same set of examples (ids, tables, contexts, links and
\* semantic models), for every saver configuration: batched or
\* per-example, individual_table_compressed in {None, gz, bz2, lz4}.
C25_SaveThenLoad ==
    (save.pc = "done" /\ load.pc \in {"done", "raised"})
        => /\ load.pc = "done"
           /\ Len(load.examples) = Len(save.examples)
           /\ \A i \in 1..Len(save.examples) :
                \E j \in 1..Len(load.examples) :
                    SameExample(save.examples[i], load.examples[j])

(***************************************************************************)
(* Further claims about precision_recall_f1 (checked under SpecPrf) and    *)
(* about replace_class_nodes_by_subject_columns (checked under SpecTr).    *)
(***************************************************************************)

\* C26: an example with a non-empty true-label set and a None prediction
\* does not make precision_recall_f1 fail: the call returns, and that
\* example is counted in n_labels but in neither n_predictions nor
\* n_correct.
C26_LabelWithoutPredictionCounts ==
    (/\ prf.pc = "done"
     /\ Len(prf.arg.ypreds) = Len(prf.arg.ytrue)
     /\ \E k \in 1..Len(prf.arg.ytrue) :
            TrueLabelSet(k) # {} /\ prf.arg.ypreds[k] = None
     /\ \A k \in 1..Len(prf.arg.ytrue) :
            ~(TrueLabelSet(k) = {} /\ prf.arg.ypreds[k] = None))
        => /\ prf.result.ok
           /\ prf.n_labels = Cardinality(Labelled)
           /\ prf.n_predictions = Cardinality(Predicted)
           /\ prf.n_correct = Cardinality(Correct)
           /\ prf.result.val.recall = Float(Cardinality(Correct), Cardinality(Labelled))

\* C27: when replace_class_nodes_by_subject_columns raises because a class
\* node has more than one identifier edge, the model is left exactly as it
\* was before the call: no edge rewired or removed and no node removed,
\* wherever the offending class node stands in the visiting order.
C27_RaiseLeavesModel ==
    \A c \in 1..Len(tr.results) :
        ~tr.results[c].ok
            => /\ tr.results[c].sm.nodes = tr.model.nodes
               /\ tr.results[c].sm.edges = tr.model.edges

=============================================================================
